---- MODULE Spec2Model ----
(***************************************************************************)
(* Model of asobi's provisioning / teardown orchestrator                   *)
(* (InfrastructureService) together with the persistence collaborator      *)
(* (ConfigService.updateConfigFile) and the CLI commands that start a run. *)
(*                                                                         *)
(* One CLI command is one process: it loads the configuration from         *)
(* .asobi/asobi.json, builds an InfrastructureService around it and runs   *)
(* createInfrastructure or deleteInfrastructure.  Remote control-plane     *)
(* calls are inputs: each call either succeeds or raises.  Identifiers are *)
(* abstracted to "present" (TRUE) / "null or empty list" (FALSE).          *)
(***************************************************************************)
EXTENDS Integers, Sequences, FiniteSets, TLC

VARIABLES
  disk,             \* content of .asobi/asobi.json (last completed write)
  pending,          \* writeFile calls issued and not yet completed
  config,           \* InfrastructureService.config of the running process
  isNodeProject,    \* config.isNodeProject of the running process
  cmd,              \* CLI command of the running (or last) process
  pc,               \* position of the running process
  resources,        \* deleteInfrastructure's local `resources`
  error,            \* the error caught by createInfrastructure's catch
  result,           \* outcome of createInfrastructure / deleteInfrastructure
  calls,            \* operations invoked by this run, in order: Lifecycle
                    \* Manager calls, the prompt, updateConfigFile calls
  failedResources,  \* deleteInfrastructure's local failure list
  deletedResources, \* the Set<string> of deleted resource labels
  attempts,         \* `attempts` of the running polling loop
  maxAttempts,      \* `maxAttempts` of the running polling loop
  queries,          \* queries the running polling loop has sent
  ret,              \* what the last Lifecycle Manager operation returned/threw
  fn,               \* the Lifecycle Manager operation called directly
  sent,             \* control-plane commands that operation has sent, in order
  securityGroupIds, \* argument of deleteSecurityGroups
  vpcCidrBlock,     \* argument of createSubnets, as <<a, b, c, d, prefix>>
  availabilityZones,\* argument of createSubnets (how many zones)
  existingCidrs,    \* CIDR blocks of the subnets the VPC already has
  subnetIndex,      \* createSubnets' local `subnetIndex`
  subnetCidrs,      \* CIDR blocks of the CreateSubnet commands that succeeded
  uniqueId,         \* BaseService.uniqueId of each Lifecycle Manager ("": the
                    \* manager has not been constructed)
  appName,          \* config.appName the managers were constructed with
  tags,             \* Tags of the resource the manager has created
  internetGateway,  \* verifyVpcConfiguration's answer about the gateway
  routeTable,       \* verifyVpcConfiguration's answer about the route table
  igId,             \* configureExistingVpc's local `igId`
  rtId,             \* configureExistingVpc's local `rtId`
  listeners,        \* how many listeners DescribeListeners returned
  attachedPolicies, \* how many policies ListAttachedRolePolicies returned
  isNewVpc,         \* `isNewVpc` of the selectOrCreateVpc call that returned the
                    \* recorded network: the run created it
  defaultVpc,       \* the network recorded as vpcId is the region's default VPC
  orphaned          \* this run created a remote resource that no field of
                    \* this.config.resources records

\* arguments and surroundings of createSubnets / deleteSecurityGroups
svcArgs == <<securityGroupIds, vpcCidrBlock, availabilityZones, existingCidrs>>

\* locals of createSubnets
subnetLocals == <<subnetIndex, subnetCidrs>>

\* the managers' identity and the tags it puts on a resource
listVars == <<uniqueId, appName, tags>>

\* locals of selectOrCreateVpc and configureExistingVpc
vpcLocals == <<internetGateway, routeTable, igId, rtId>>

\* state of the list, VPC and load-balancer operations
callVars == <<listVars, vpcLocals, listeners, attachedPolicies>>

\* state of a Lifecycle Manager operation that is called directly
svcVars == <<maxAttempts, fn, sent, svcArgs, subnetLocals, callVars>>

\* what exists on the remote side beyond the recorded identifiers
remoteVars == <<isNewVpc, defaultVpc, orphaned>>

\* state of the orchestrator and of the process that runs it
orchVars == <<disk, pending, config, isNodeProject, cmd, resources, error,
              result, calls, failedResources, deletedResources, remoteVars>>

vars == <<disk, pending, config, isNodeProject, cmd, pc, resources, error, result,
          calls, failedResources, deletedResources, attempts, maxAttempts,
          queries, ret, fn, sent, securityGroupIds, vpcCidrBlock,
          availabilityZones, existingCidrs, subnetIndex, subnetCidrs,
          isNewVpc, defaultVpc, orphaned, uniqueId, appName, tags, internetGateway,
          routeTable, igId, rtId, listeners, attachedPolicies>>

-----------------------------------------------------------------------------
(* Bounds and program constants *)

\* default maxAttempts of waitForInstanceToBeRunning / ...Terminated
DefaultMaxAttempts == 30

\* largest maxAttempts a polling operation is called with directly
MaxAttemptsArg == 3

\* queries of one polling loop that may raise
MaxQueryFailures == 2

\* most security groups deleteSecurityGroups is called with
MaxGroups == 2

\* most availability zones createSubnets is called with
MaxZones == 3

\* largest third octet of a /24 block the VPC already has
MaxThirdOctet == 3

-----------------------------------------------------------------------------
(* Data model *)

\* the Lifecycle Managers that extend BaseService
Managers == {"vpc", "subnet", "securityGroup", "ec2", "iam", "alb"}

\* no manager has been constructed
NotConstructed == [m \in Managers |-> ""]

\* { id: string | null; configured: boolean } before verifyVpcConfiguration
\* has answered
NotVerified == [id |-> "", configured |-> FALSE]

ResourceFields ==
  {"vpcId", "routeTableId", "internetGatewayId", "subnetIds",
   "securityGroupIds", "instanceProfileName", "instanceId",
   "loadBalancerArn", "targetGroupArn", "certificateArn"}

\* InfrastructureResources: TRUE = identifier(s) present, FALSE = null / []
InfrastructureResources == [ResourceFields -> BOOLEAN]

EmptyResources == [f \in ResourceFields |-> FALSE]

\* generateConfigTemplate(): appName "" (FALSE) and no identifiers.  Of the
\* other fields only isNodeProject is read by the orchestrator; no process
\* reads it back from the file (`asobi create` sets it before the run), so it
\* is kept beside the record, in the variable isNodeProject.
generateConfigTemplate == [appName |-> FALSE, resources |-> EmptyResources]

\* the create operation of each stage, in the order createInfrastructure
\* calls them
CreateOps == <<"selectOrCreateVpc", "createSubnets", "createSecurityGroups",
               "createInstanceProfile", "createEC2Instance",
               "createLoadBalancer", "registerTarget", "waitForHealthCheck">>

DeleteOps == {"deregisterTarget", "deleteLoadBalancer", "terminateInstance",
              "deleteSecurityGroups", "deleteSubnets", "deleteVpc",
              "deleteInstanceProfile"}

\* ordinal position (1-based) of the stage an operation belongs to
StageOrd(op) ==
  CASE op \in {"selectOrCreateVpc", "deleteVpc"} -> 1
    [] op \in {"createSubnets", "deleteSubnets"} -> 2
    [] op \in {"createSecurityGroups", "deleteSecurityGroups"} -> 3
    [] op \in {"createInstanceProfile", "deleteInstanceProfile"} -> 4
    [] op \in {"createEC2Instance", "terminateInstance"} -> 5
    [] op \in {"createLoadBalancer", "deleteLoadBalancer"} -> 6
    [] op \in {"registerTarget", "deregisterTarget"} -> 7
    [] op = "waitForHealthCheck" -> 8

\* the Resource Set field that records a resource-producing stage
StageField(n) ==
  CASE n = 1 -> "vpcId"
    [] n = 2 -> "subnetIds"
    [] n = 3 -> "securityGroupIds"
    [] n = 4 -> "instanceProfileName"
    [] n = 5 -> "instanceId"
    [] n = 6 -> "loadBalancerArn"

ProducingStages == 1..6

Call(op, ok, phase) == [op |-> op, ok |-> ok, phase |-> phase]

NoResult == [kind |-> "none", success |-> FALSE, error |-> "undefined",
             resources |-> FALSE]

Returned(success, err, withResources) ==
  [kind |-> "return", success |-> success, error |-> err,
   resources |-> withResources]

Thrown(code) ==
  [kind |-> "throw", success |-> FALSE, error |-> code, resources |-> FALSE]

-----------------------------------------------------------------------------
(* Initial state: `asobi` has been initialised in the directory, the       *)
(* config file holds the template, no process is running.                  *)

Init ==
  /\ disk = generateConfigTemplate
  /\ pending = {}
  /\ config = generateConfigTemplate
  /\ isNodeProject = FALSE
  /\ cmd = "none"
  /\ pc = "idle"
  /\ resources = EmptyResources
  /\ error = "none"
  /\ result = NoResult
  /\ calls = <<>>
  /\ failedResources = <<>>
  /\ deletedResources = {}
  /\ attempts = 0
  /\ maxAttempts = DefaultMaxAttempts
  /\ queries = 0
  /\ ret = "none"
  /\ fn = "none"
  /\ sent = <<>>
  /\ securityGroupIds = <<>>
  /\ vpcCidrBlock = <<10, 0, 0, 0, 16>>
  /\ availabilityZones = 0
  /\ existingCidrs = {}
  /\ subnetIndex = 1
  /\ subnetCidrs = <<>>
  /\ isNewVpc = TRUE
  /\ defaultVpc = FALSE
  /\ orphaned = FALSE
  /\ uniqueId = NotConstructed
  /\ appName = ""
  /\ tags = {}
  /\ internetGateway = NotVerified
  /\ routeTable = NotVerified
  /\ igId = ""
  /\ rtId = ""
  /\ listeners = 0
  /\ attachedPolicies = 0

\* a process has ended once its command has finished and the event loop has
\* drained the writes it issued
NoProcess == pc = "idle" /\ pending = {}

\* fresh per-process state
StartProcess(c, cfg, node, at) ==
  /\ cmd' = c
  /\ config' = cfg
  /\ isNodeProject' = node
  /\ pc' = at
  /\ resources' = EmptyResources
  /\ error' = "none"
  /\ result' = NoResult
  /\ calls' = <<>>
  /\ failedResources' = <<>>
  /\ deletedResources' = {}
  /\ attempts' = 0
  /\ queries' = 0
  /\ ret' = "none"
  /\ UNCHANGED <<svcVars, remoteVars>>

-----------------------------------------------------------------------------
(* Persistence collaborator *)

\* `await this.configService.updateConfigFile(this.config)`: the caller is
\* suspended until writeFile has completed
AwaitedWrite(from, to) ==
  /\ pc = from
  /\ disk' = config
  /\ calls' = Append(calls, Call("updateConfigFile", TRUE, "write"))
  /\ pc' = to
  /\ UNCHANGED <<pending, config, isNodeProject, cmd, resources, error, result,
                 failedResources, deletedResources, attempts,
                 queries, ret, svcVars, remoteVars>>

\* a writeFile call issued and not awaited completes at some later time;
\* concurrent writeFile calls on one path complete in no particular order.
\* Nothing reads the file while the issuing process runs, so the completions
\* are placed after the method has returned: every completion order, and so
\* every final content of the file, is still covered.
WriteLands ==
  /\ pc = "idle"
  /\ \E w \in pending :
       /\ disk' = w
       /\ pending' = pending \ {w}
  /\ UNCHANGED <<config, isNodeProject, cmd, pc, resources, error, result, calls,
                 failedResources, deletedResources, attempts,
                 queries, ret, svcVars, remoteVars>>

-----------------------------------------------------------------------------
(* CLI commands (one process each) *)

\* `asobi create`: load the config file, fill in the missing fields (the app
\* name is prompted for when empty), save the populated config, then run
\* createInfrastructure.  isNodeProject is a field of InfrastructureConfig
\* that the service reads; both values are covered.
CliCreate ==
  /\ NoProcess
  /\ \E node \in BOOLEAN :
       LET cfg == [disk EXCEPT !.appName = TRUE]
       IN  /\ disk' = cfg
           /\ StartProcess("create", cfg, node, "c_account")
  /\ UNCHANGED pending

\* `asobi delete`: load the config file as it is and, on confirmation, run
\* deleteInfrastructure
CliDelete ==
  /\ NoProcess
  /\ StartProcess("delete", disk, FALSE, "d_guard")
  /\ UNCHANGED <<disk, pending>>

\* the command's action ends after the method has returned or thrown; the
\* service object and its run-local state are gone, the writes still in
\* flight complete before the process exits
CliEnds ==
  /\ pc = "done"
  /\ pc' = "idle"
  /\ resources' = EmptyResources
  /\ error' = "none"
  /\ calls' = <<>>
  /\ failedResources' = <<>>
  /\ deletedResources' = {}
  /\ attempts' = 0
  /\ queries' = 0
  /\ ret' = "none"
  /\ orphaned' = FALSE
  /\ UNCHANGED <<disk, pending, config, isNodeProject, cmd, result, svcVars,
                 isNewVpc, defaultVpc>>

-----------------------------------------------------------------------------
(* createInfrastructure *)

\* first statement of the catch block: where control goes when a statement of
\* the try block raises
CreateCatch == "r_instance"

\* try/catch of createInfrastructure: a stage that raises leaves the try
\* block, a stage that returns is followed by the next statement
AfterCreate_Continue(ok, next) == next

AfterCreate(ok, next) == IF ok THEN next ELSE CreateCatch

\* a statement of the try block that raises `e`
Raise(e) ==
  /\ pc' = CreateCatch
  /\ error' = e

\* getAwsAccountDetails()
GetAwsAccountDetails ==
  /\ pc = "c_account"
  /\ \E ok \in BOOLEAN :
       IF ok THEN pc' = "c_confirm" /\ UNCHANGED error
             ELSE Raise("AWS_ACCOUNT_ERROR")
  /\ UNCHANGED <<disk, pending, config, isNodeProject, cmd, resources, result, calls,
                 failedResources, deletedResources, attempts,
                 queries, ret, svcVars, remoteVars>>

\* `if (!confirm) return {...}`: where control goes after the prompt
AfterConfirm_Proceed(confirm) == "c_write0"

AfterConfirm(confirm) == IF confirm THEN "c_write0" ELSE "done"

\* the confirmation prompt; a negative answer returns at once
Confirm ==
  /\ pc = "c_confirm"
  /\ \E confirm \in BOOLEAN :
       /\ calls' = Append(calls, Call("confirm", confirm, "prompt"))
       /\ pc' = AfterConfirm(confirm)
       /\ result' = IF confirm
                      THEN result
                      ELSE Returned(FALSE, "Operation cancelled by user", FALSE)
  /\ UNCHANGED <<disk, pending, config, isNodeProject, cmd, resources, error,
                 failedResources, deletedResources, attempts,
                 queries, ret, svcVars, remoteVars>>

WriteConfig == AwaitedWrite("c_write0", "c_vpc")

\* the create operations that send several creating commands inside one
\* try block whose catch only rethrows: when a later command raises, what the
\* earlier ones created stays (createEC2Instance deletes its key pair)
LeavesPartial(op) ==
  op \in {"selectOrCreateVpc", "createSubnets", "createSecurityGroups",
          "createInstanceProfile", "createLoadBalancer"}

\* selectOrCreateVpc offers every VPC of the region, the default one
\* included, and returns the one the user selects
SelectsExisting(op) == op = "selectOrCreateVpc"

\* one stage of the try block: the Lifecycle Manager's create operation is
\* invoked; when it returns, its identifiers are stored in
\* this.config.resources; when it raises, control goes to the catch block
\*   partial:   the operation raised after one of its commands had created
\*              a remote resource
\*   existing:  the user selected an existing VPC (isNewVpc: false)
\*   isDefault: the VPC selected is the region's default VPC
CreateStage(from, op, produced, next) ==
  /\ pc = from
  /\ \E ok \in BOOLEAN, partial \in BOOLEAN, existing \in BOOLEAN,
        isDefault \in BOOLEAN :
       /\ partial => ~ok /\ LeavesPartial(op)
       /\ existing => ok /\ SelectsExisting(op)
       /\ isDefault => existing
       /\ calls' = Append(calls, Call(op, ok, "create"))
       /\ pc' = AfterCreate(ok, next)
       /\ error' = IF ok THEN error ELSE op
       /\ config' = IF ok
                      THEN [config EXCEPT !.resources =
                              [f \in ResourceFields |->
                                 IF f \in produced THEN TRUE ELSE @[f]]]
                      ELSE config
       /\ orphaned' = (orphaned \/ partial)
       /\ isNewVpc' = IF ok /\ SelectsExisting(op) THEN ~existing
                                                   ELSE isNewVpc
       /\ defaultVpc' = IF ok /\ SelectsExisting(op) THEN isDefault
                                                     ELSE defaultVpc
  /\ UNCHANGED <<disk, pending, isNodeProject, cmd, resources, result,
                 failedResources, deletedResources, attempts,
                 queries, ret, svcVars>>

CreateVpc ==
  CreateStage("c_vpc", "selectOrCreateVpc",
              {"vpcId", "routeTableId", "internetGatewayId"}, "c_vpc_w")
WriteVpc == AwaitedWrite("c_vpc_w", "c_subnets")

CreateSubnets ==
  CreateStage("c_subnets", "createSubnets", {"subnetIds"}, "c_subnets_w")
WriteSubnets == AwaitedWrite("c_subnets_w", "c_sg")

CreateSecurityGroups ==
  CreateStage("c_sg", "createSecurityGroups", {"securityGroupIds"}, "c_sg_w")
WriteSecurityGroups == AwaitedWrite("c_sg_w", "c_iam")

CreateInstanceProfile ==
  CreateStage("c_iam", "createInstanceProfile", {"instanceProfileName"},
              "c_iam_w")
WriteInstanceProfile == AwaitedWrite("c_iam_w", "c_ec2")

CreateEC2Instance ==
  CreateStage("c_ec2", "createEC2Instance", {"instanceId"}, "c_ec2_w")
WriteEC2Instance == AwaitedWrite("c_ec2_w", "c_waitrun")

\* `while (attempts < maxAttempts)`
InBudget_OffByOne(n, max) == n <= max

InBudget(n, max) == n < max

\* `attempts` after one pass of the loop: waitForInstanceToBeRunning and
\* waitForInstanceToBeTerminated count the passes whose query returned,
\* waitForHealthCheck counts the passes whose query raised as well
AttemptsAfter_ErrorsFree(poller, outcome, n) ==
  IF outcome = "waiting" THEN n + 1 ELSE n

AttemptsAfter(poller, outcome, n) ==
  CASE outcome = "ready" -> n
    [] outcome = "waiting" -> n + 1
    [] outcome = "error" -> IF poller = "waitForHealthCheck" THEN n + 1 ELSE n

\* one pass of the `while (attempts < maxAttempts)` loop of a fixed-interval
\* poller, entered at `from`; the function returns (true or false) to `next`.
\*   "ready":   the query reports the awaited state: return true
\*   "waiting": the query reports another state: sleep, attempts++
\*   "error":   the query raises: sleep (and, in waitForHealthCheck only,
\*              attempts++)
PollInstance(poller, from, next, outcome) ==
  /\ pc = from
  /\ InBudget(attempts, maxAttempts)
  /\ outcome = "error" => queries - attempts < MaxQueryFailures
  /\ queries' = queries + 1
  /\ attempts' = AttemptsAfter(poller, outcome, attempts)
  /\ IF outcome = "ready"
       THEN pc' = next /\ ret' = "true"
       ELSE IF InBudget(attempts', maxAttempts)
              THEN pc' = from /\ ret' = ret
              ELSE pc' = next /\ ret' = "false"

\* the orchestrator calls both pollers with the default maxAttempts and
\* drops the value they return
OrchestratorPoll(poller, from, next, outcome) ==
  /\ PollInstance(poller, from, next, outcome)
  /\ UNCHANGED <<orchVars, svcVars>>

WaitRunningReady ==
  OrchestratorPoll("waitForInstanceToBeRunning", "c_waitrun", "c_alb", "ready")
WaitRunningWaiting ==
  OrchestratorPoll("waitForInstanceToBeRunning", "c_waitrun", "c_alb",
                   "waiting")
WaitRunningError ==
  OrchestratorPoll("waitForInstanceToBeRunning", "c_waitrun", "c_alb", "error")

CreateLoadBalancer ==
  CreateStage("c_alb", "createLoadBalancer",
              {"loadBalancerArn", "targetGroupArn"}, "c_alb_w")
WriteLoadBalancer == AwaitedWrite("c_alb_w", "c_register")

\* `if (this.config.isNodeProject) { ...waitForHealthCheck... } else skip`
AfterRegister_Always(node) == "c_health"

AfterRegister(node) == IF node THEN "c_health" ELSE "c_final_w"

\* registerTarget, then the health check for Node.js projects only
RegisterTarget ==
  CreateStage("c_register", "registerTarget", {}, AfterRegister(isNodeProject))

\* waitForHealthCheck returned false: createInfrastructure itself raises
\* "Target failed health check"; a poll that raises takes the same path
WaitForHealthCheck ==
  CreateStage("c_health", "waitForHealthCheck", {}, "c_final_w")

\* the last write, then `return { success: true, resources }`
ReturnCreated ==
  /\ pc = "c_final_w"
  /\ disk' = config
  /\ calls' = Append(calls, Call("updateConfigFile", TRUE, "write"))
  /\ pc' = "done"
  /\ result' = Returned(TRUE, "undefined", TRUE)
  /\ UNCHANGED <<pending, config, isNodeProject, cmd, resources, error,
                 failedResources, deletedResources, attempts,
                 queries, ret, svcVars, remoteVars>>

-----------------------------------------------------------------------------
(* rollbackDeletion, called from the catch block of createInfrastructure   *)
(* with this.config.resources and an empty Set                             *)

\* try/catch of rollbackDeletion: a delete that raises is caught by the one
\* catch around all deletes, which throws ROLLBACK_ERROR
AfterRollbackDelete(ok, next) == IF ok THEN next ELSE "r_throw"

\* one `if (<field> && !deletedResources.has(label)) { await delete; add }`
RollbackStep(from, present, label, op, next) ==
  /\ pc = from
  /\ IF present /\ label \notin deletedResources
       THEN \E ok \in BOOLEAN :
              /\ calls' = Append(calls, Call(op, ok, "rollback"))
              /\ deletedResources' =
                   IF ok THEN deletedResources \cup {label}
                         ELSE deletedResources
              /\ pc' = AfterRollbackDelete(ok, next)
       ELSE /\ pc' = next
            /\ UNCHANGED <<calls, deletedResources>>
  /\ UNCHANGED <<disk, pending, config, isNodeProject, cmd, resources, error, result,
                 failedResources, attempts,
                 queries, ret, svcVars, remoteVars>>

RollbackInstance ==
  RollbackStep("r_instance", config.resources["instanceId"], "instance",
               "terminateInstance", "r_targetGroup")

RollbackTargetGroup ==
  RollbackStep("r_targetGroup", config.resources["targetGroupArn"],
               "targetGroup", "deleteLoadBalancer", "r_loadBalancer")

RollbackLoadBalancer ==
  RollbackStep("r_loadBalancer", config.resources["loadBalancerArn"],
               "loadBalancer", "deleteLoadBalancer", "r_securityGroups")

RollbackSecurityGroups ==
  RollbackStep("r_securityGroups", config.resources["securityGroupIds"],
               "securityGroups", "deleteSecurityGroups", "r_subnets")

RollbackSubnets ==
  RollbackStep("r_subnets", config.resources["subnetIds"], "subnets",
               "deleteSubnets", "r_vpc")

RollbackVpc ==
  RollbackStep("r_vpc",
               /\ config.resources["vpcId"]
               /\ config.resources["routeTableId"]
               /\ config.resources["internetGatewayId"],
               "vpc", "deleteVpc", "r_instanceProfile")

RollbackInstanceProfile ==
  RollbackStep("r_instanceProfile", config.resources["instanceProfileName"],
               "instanceProfile", "deleteInstanceProfile", "r_return")

\* the catch of rollbackDeletion throws ROLLBACK_ERROR; the call is awaited
\* inside createInfrastructure's catch block, so createInfrastructure rejects
RollbackThrows ==
  /\ pc = "r_throw"
  /\ pc' = "done"
  /\ result' = Thrown("ROLLBACK_ERROR")
  /\ UNCHANGED <<disk, pending, config, isNodeProject, cmd, resources, error, calls,
                 failedResources, deletedResources, attempts,
                 queries, ret, svcVars, remoteVars>>

\* rollbackDeletion returned: `return { success: false, error }`
ReturnFailed ==
  /\ pc = "r_return"
  /\ pc' = "done"
  /\ result' = Returned(FALSE, error, FALSE)
  /\ UNCHANGED <<disk, pending, config, isNodeProject, cmd, resources, error, calls,
                 failedResources, deletedResources, attempts,
                 queries, ret, svcVars, remoteVars>>

-----------------------------------------------------------------------------
(* deleteInfrastructure *)

\* `if (!app) return { success: false, error: "App ... not found" }`, else
\* `const resources = this.config.resources`
DeleteGuard ==
  /\ pc = "d_guard"
  /\ IF config.appName
       THEN /\ resources' = config.resources
            /\ pc' = "d_deregister"
            /\ UNCHANGED result
       ELSE /\ result' = Returned(FALSE, "App not found", FALSE)
            /\ pc' = "done"
            /\ UNCHANGED resources
  /\ UNCHANGED <<disk, pending, config, isNodeProject, cmd, error, calls,
                 failedResources, deletedResources, attempts,
                 queries, ret, svcVars, remoteVars>>

\* retryOperation: the operation is tried once; when it raises, its label
\* is pushed on the failure list and the error goes no further
retryOperation_NoRecord(ok, resourceName, failed) == failed

retryOperation(ok, resourceName, failed) ==
  IF ok THEN failed ELSE Append(failed, resourceName)

\* control after `await this.retryOperation(...)`: always the next statement
AfterRetry_Abort(ok, next) == IF ok THEN next ELSE "d_finish"

AfterRetry(ok, next) == next

\* one `if (<cond>) { await this.retryOperation(<op>, <label>, ...) }`;
\* an operation over an empty list has nothing to send and cannot raise
DeleteStep(from, cond, canRaise, op, key, label, next) ==
  /\ pc = from
  /\ IF cond
       THEN \E ok \in (IF canRaise THEN BOOLEAN ELSE {TRUE}) :
              /\ calls' = Append(calls, Call(op, ok, "delete"))
              /\ deletedResources' =
                   IF ok THEN deletedResources \cup {key}
                         ELSE deletedResources
              /\ failedResources' = retryOperation(ok, label, failedResources)
              /\ pc' = AfterRetry(ok, next)
       ELSE /\ pc' = next
            /\ UNCHANGED <<calls, deletedResources, failedResources>>
  /\ UNCHANGED <<disk, pending, config, isNodeProject, cmd, resources, error, result,
                 attempts,
                 queries, ret, svcVars, remoteVars>>

\* updateLocalConfigAndFileOnDelete(opts): this.config = opts, then
\* updateConfigFile(opts) is called and its promise dropped, so the write
\* is in flight when the caller goes on
updateLocalConfigAndFileOnDelete(opts) ==
  /\ config' = opts
  /\ pending' = pending \cup {opts}
  /\ calls' = Append(calls, Call("updateConfigFile", TRUE, "write"))

\* the per-stage checkpoint: { ...this.config, resources:
\* { ...this.config.resources, <cleared fields>: null / [] } }
Checkpoint(from, cleared, next) ==
  /\ pc = from
  /\ updateLocalConfigAndFileOnDelete(
       [config EXCEPT !.resources =
          [f \in ResourceFields |-> IF f \in cleared THEN FALSE ELSE @[f]]])
  /\ pc' = next
  /\ UNCHANGED <<disk, isNodeProject, cmd, resources, error, result,
                 failedResources, deletedResources, attempts,
                 queries, ret, svcVars, remoteVars>>

\* Step 1
DeregisterTarget ==
  DeleteStep("d_deregister",
             resources["instanceId"] /\ resources["targetGroupArn"], TRUE,
             "deregisterTarget", "target_registration",
             "target deregistration", "d_lb")

\* Step 2
DeleteLoadBalancer ==
  DeleteStep("d_lb",
             resources["loadBalancerArn"] /\ resources["targetGroupArn"],
             TRUE, "deleteLoadBalancer", "load_balancer", "load balancer",
             "d_lb_cp")
CheckpointLoadBalancer ==
  Checkpoint("d_lb_cp", {"targetGroupArn", "loadBalancerArn"}, "d_ec2")

\* Step 3: terminate, then wait for the terminated state
TerminateInstance ==
  DeleteStep("d_ec2", resources["instanceId"], TRUE, "terminateInstance",
             "ec2_instance", "EC2 instance",
             IF resources["instanceId"] THEN "d_wait" ELSE "d_ec2_cp")
WaitTerminatedReady ==
  OrchestratorPoll("waitForInstanceToBeTerminated", "d_wait", "d_ec2_cp",
                   "ready")
WaitTerminatedWaiting ==
  OrchestratorPoll("waitForInstanceToBeTerminated", "d_wait", "d_ec2_cp",
                   "waiting")
WaitTerminatedError ==
  OrchestratorPoll("waitForInstanceToBeTerminated", "d_wait", "d_ec2_cp",
                   "error")
CheckpointInstance == Checkpoint("d_ec2_cp", {"instanceId"}, "d_sg")

\* Step 4: `if (resources.securityGroupIds)` holds for every array
DeleteSecurityGroups ==
  DeleteStep("d_sg", TRUE, resources["securityGroupIds"],
             "deleteSecurityGroups", "security_groups", "security groups",
             "d_sg_cp")
CheckpointSecurityGroups ==
  Checkpoint("d_sg_cp", {"securityGroupIds"}, "d_subnets")

\* Step 5: `if (resources.subnetIds)` holds for every array
DeleteSubnets ==
  DeleteStep("d_subnets", TRUE, resources["subnetIds"], "deleteSubnets",
             "subnets", "subnets", "d_subnets_cp")
CheckpointSubnets == Checkpoint("d_subnets_cp", {"subnetIds"}, "d_vpc")

\* Step 6
DeleteVpc ==
  DeleteStep("d_vpc",
             /\ resources["vpcId"]
             /\ resources["routeTableId"]
             /\ resources["internetGatewayId"],
             TRUE, "deleteVpc", "vpc", "VPC", "d_vpc_cp")
CheckpointVpc == Checkpoint("d_vpc_cp", {"vpcId"}, "d_iam")

\* Step 7
DeleteInstanceProfile ==
  DeleteStep("d_iam", resources["instanceProfileName"], TRUE,
             "deleteInstanceProfile", "instance_profile",
             "IAM instance profile", "d_iam_cp")
CheckpointInstanceProfile ==
  Checkpoint("d_iam_cp", {"instanceProfileName"}, "d_finish")

\* the value deleteInfrastructure returns after the last step
DeleteResponse_FailOnList(failed) ==
  Returned(failed = <<>>,
           IF failed # <<>> THEN "Some resources could not be deleted"
                            ELSE "undefined", FALSE)

DeleteResponse(failed) ==
  Returned(TRUE,
           IF Len(failed) > 0 THEN "Some resources could not be deleted"
                              ELSE "undefined", FALSE)

\* reset to generateConfigTemplate() (un-awaited write), then return
ReturnDeleted ==
  /\ pc = "d_finish"
  /\ updateLocalConfigAndFileOnDelete(generateConfigTemplate)
  /\ result' = DeleteResponse(failedResources)
  /\ pc' = "done"
  /\ UNCHANGED <<disk, isNodeProject, cmd, resources, error, failedResources,
                 deletedResources, attempts,
                 queries, ret, svcVars, remoteVars>>

-----------------------------------------------------------------------------

Next ==
  \/ CliCreate \/ CliDelete \/ CliEnds \/ WriteLands
  \/ GetAwsAccountDetails \/ Confirm \/ WriteConfig
  \/ CreateVpc \/ WriteVpc
  \/ CreateSubnets \/ WriteSubnets
  \/ CreateSecurityGroups \/ WriteSecurityGroups
  \/ CreateInstanceProfile \/ WriteInstanceProfile
  \/ CreateEC2Instance \/ WriteEC2Instance
  \/ WaitRunningReady \/ WaitRunningWaiting \/ WaitRunningError
  \/ CreateLoadBalancer \/ WriteLoadBalancer
  \/ RegisterTarget \/ WaitForHealthCheck \/ ReturnCreated
  \/ RollbackInstance \/ RollbackTargetGroup \/ RollbackLoadBalancer
  \/ RollbackSecurityGroups \/ RollbackSubnets \/ RollbackVpc
  \/ RollbackInstanceProfile \/ RollbackThrows \/ ReturnFailed
  \/ DeleteGuard \/ DeregisterTarget
  \/ DeleteLoadBalancer \/ CheckpointLoadBalancer
  \/ TerminateInstance
  \/ WaitTerminatedReady \/ WaitTerminatedWaiting \/ WaitTerminatedError
  \/ CheckpointInstance
  \/ DeleteSecurityGroups \/ CheckpointSecurityGroups
  \/ DeleteSubnets \/ CheckpointSubnets
  \/ DeleteVpc \/ CheckpointVpc
  \/ DeleteInstanceProfile \/ CheckpointInstanceProfile
  \/ ReturnDeleted

Spec == Init /\ [][Next]_vars

-----------------------------------------------------------------------------
(* Lifecycle Manager operations called directly, one call at a time, with  *)
(* the arguments the caller chooses                                        *)

ServiceIdle == pc = "idle" /\ fn = "none" /\ cmd = "none"

Pollers == {"waitForInstanceToBeRunning", "waitForInstanceToBeTerminated",
            "waitForHealthCheck"}

\* <poller>(id, maxAttempts): `let attempts = 0`, then the first test of the
\* `while`; `return false` when the loop is not entered
CallPoller ==
  /\ ServiceIdle
  /\ \E poller \in Pollers, n \in 0..MaxAttemptsArg :
       /\ fn' = poller
       /\ maxAttempts' = n
       /\ attempts' = 0
       /\ queries' = 0
       /\ IF InBudget(0, n)
            THEN pc' = "s_poll" /\ ret' = "none"
            ELSE pc' = "s_done" /\ ret' = "false"
  /\ UNCHANGED <<orchVars, callVars, sent, svcArgs, subnetLocals>>

\* one pass of the poller's loop
Poll ==
  /\ fn \in Pollers
  /\ \E outcome \in {"ready", "waiting", "error"} :
       PollInstance(fn, "s_poll", "s_done", outcome)
  /\ UNCHANGED <<orchVars, svcVars>>

\* this.<client>.send(command) about the resource `target`, with what the
\* control plane answered
SendTo(command, target, outcome) ==
  sent' = Append(sent, [command |-> command, target |-> target,
                        outcome |-> outcome])

\* a command that names no resource of interest
Send(command, outcome) == SendTo(command, 0, outcome)

\* the operation rejects with an error of this code
Throw(code) == pc' = "s_done" /\ ret' = code

\* how often a command has been sent
Sends(command) ==
  Cardinality({i \in 1..Len(sent) : sent[i].command = command})

(* IAMService.createInstanceProfile *)

\* the managed policies attached to the role
Policies == 3

\* the error createInstanceProfile rejects with when a step fails:
\* verifyIamPermissions turns AccessDeniedException into
\* IAM_PERMISSION_ERROR, the two verifications throw their own codes, and
\* the catch block turns everything that is no InfrastructureError into
\* IAM_ERROR
IamErrorCode_Generic(command, outcome) == "IAM_ERROR"

IamErrorCode(command, outcome) ==
  CASE command = "ListInstanceProfiles" /\ outcome = "AccessDeniedException"
         -> "IAM_PERMISSION_ERROR"
    [] command = "GetRole" /\ outcome = "missing"
         -> "IAM_ROLE_VERIFICATION_FAILED"
    [] command = "GetInstanceProfile" /\ outcome = "missing"
         -> "IAM_PROFILE_VERIFICATION_ERROR"
    [] OTHER -> "IAM_ERROR"

\* createInstanceProfile(maxAttempts)
CallCreateInstanceProfile ==
  /\ ServiceIdle
  /\ \E n \in 0..MaxAttemptsArg :
       /\ fn' = "createInstanceProfile"
       /\ maxAttempts' = n
  /\ pc' = "i_verify"
  /\ attempts' = 0
  /\ UNCHANGED <<orchVars, callVars, sent, queries, ret, svcArgs,
                 subnetLocals>>

\* one awaited command of the try block; anything but a good answer leaves
\* the try block
IamStep(from, command, outcomes, next) ==
  /\ pc = from
  /\ fn = "createInstanceProfile"
  /\ \E outcome \in outcomes :
       /\ Send(command, outcome)
       /\ IF outcome = "ok"
            THEN pc' = next /\ ret' = ret
            ELSE Throw(IamErrorCode(command, outcome))
  /\ UNCHANGED <<orchVars, callVars, maxAttempts, fn, attempts, queries,
                 svcArgs, subnetLocals>>

VerifyIamPermissions ==
  IamStep("i_verify", "ListInstanceProfiles",
          {"ok", "AccessDeniedException", "Error"}, "i_createRole")

IamCreateRole ==
  IamStep("i_createRole", "CreateRole", {"ok", "Error"}, "i_getRole")

IamVerifyRole ==
  IamStep("i_getRole", "GetRole", {"ok", "missing", "Error"}, "i_attach")

\* `for (const policyArn of policies)`
IamAttachPolicies ==
  IamStep("i_attach", "AttachRolePolicy", {"ok", "Error"},
          IF Sends("AttachRolePolicy") + 1 < Policies
            THEN "i_attach" ELSE "i_createProfile")

IamCreateProfile ==
  IamStep("i_createProfile", "CreateInstanceProfile", {"ok", "Error"},
          "i_getProfile")

IamVerifyProfile ==
  IamStep("i_getProfile", "GetInstanceProfile", {"ok", "missing", "Error"},
          "i_addRole")

IamAddRole ==
  IamStep("i_addRole", "AddRoleToInstanceProfile", {"ok", "Error"}, "i_wait")

\* what createInstanceProfile does after the propagation loop
AfterPropagation_ReturnsFalse(isProfileReady) ==
  IF isProfileReady THEN "profileName" ELSE "false"

AfterPropagation(isProfileReady) ==
  IF isProfileReady THEN "profileName"
                    ELSE "IAM_PROFILE_PROPAGATION_TIMEOUT"

\* `while (!isProfileReady && attempts < maxAttempts)`: checkResourceState
\* looks the profile up; it is ready when a role is attached, not ready
\* when none is or when the profile is unknown (NoSuchEntityException), and
\* any other error leaves the try block
IamWaitPropagation ==
  /\ pc = "i_wait"
  /\ fn = "createInstanceProfile"
  /\ IF attempts < maxAttempts
       THEN \E outcome \in {"attached", "no role", "NoSuchEntityException",
                             "Error"} :
              /\ Send("GetInstanceProfile", outcome)
              /\ CASE outcome = "attached" ->
                        /\ pc' = "s_done"
                        /\ ret' = AfterPropagation(TRUE)
                        /\ attempts' = attempts
                   [] outcome = "Error" ->
                        /\ Throw(IamErrorCode("GetInstanceProfile", outcome))
                        /\ attempts' = attempts
                   [] OTHER ->
                        /\ pc' = "i_wait"
                        /\ ret' = ret
                        /\ attempts' = attempts + 1
       ELSE /\ pc' = "s_done"
            /\ ret' = AfterPropagation(FALSE)
            /\ UNCHANGED <<sent, attempts>>
  /\ UNCHANGED <<orchVars, callVars, maxAttempts, fn, queries, svcArgs,
                 subnetLocals>>

(* SecurityGroupService.deleteSecurityGroups *)

\* groups whose iteration of the `for` loop has finished: each ends with one
\* DeleteSecurityGroup that succeeded
GroupsDeleted ==
  Cardinality({i \in 1..Len(sent) :
                 sent[i].command = "DeleteSecurityGroup"
                 /\ sent[i].outcome = "ok"})

\* `for (const groupId of [...securityGroupIds].reverse())`: the group of
\* the running iteration
CurrentGroup == securityGroupIds[Len(securityGroupIds) - GroupsDeleted]

\* where the loop goes when the running iteration has finished
NextGroup ==
  IF GroupsDeleted + 1 < Len(securityGroupIds) THEN "g_describe" ELSE "s_done"

\* deleteSecurityGroups(securityGroupIds)
CallDeleteSecurityGroups ==
  /\ ServiceIdle
  /\ \E n \in 0..MaxGroups :
       /\ securityGroupIds' = [i \in 1..n |-> i]
       /\ pc' = IF n = 0 THEN "s_done" ELSE "g_describe"
       /\ ret' = IF n = 0 THEN "undefined" ELSE ret
  /\ fn' = "deleteSecurityGroups"
  /\ UNCHANGED <<orchVars, callVars, maxAttempts, sent, attempts, queries,
                 vpcCidrBlock, availabilityZones, existingCidrs,
                 subnetLocals>>

\* one command of the inner try block: on an error that is no
\* DependencyViolation the inner catch rethrows and the outer catch throws
\* SECURITY_GROUPS_ERROR.  Of the three commands only DeleteSecurityGroup is
\* answered with DependencyViolation.
SgStep(from, command, outcomes, next) ==
  /\ pc = from
  /\ fn = "deleteSecurityGroups"
  /\ \E outcome \in outcomes :
       /\ SendTo(command, CurrentGroup, outcome)
       /\ CASE outcome = "Error" -> Throw("SECURITY_GROUPS_ERROR")
            [] outcome = "DependencyViolation" -> pc' = "g_retry" /\ ret' = ret
            [] OTHER ->
                 /\ pc' = next[outcome]
                 /\ ret' = IF next[outcome] = "s_done" THEN "undefined" ELSE ret
  /\ UNCHANGED <<orchVars, callVars, maxAttempts, fn, attempts, queries,
                 svcArgs, subnetLocals>>

SgDescribe ==
  SgStep("g_describe", "DescribeSecurityGroups", {"rules", "no rules", "Error"},
         [o \in {"rules", "no rules"} |->
            IF o = "rules" THEN "g_revoke" ELSE "g_delete"])

SgRevoke ==
  SgStep("g_revoke", "RevokeSecurityGroupIngress", {"ok", "Error"},
         [o \in {"ok"} |-> "g_delete"])

SgDelete ==
  SgStep("g_delete", "DeleteSecurityGroup",
         {"ok", "DependencyViolation", "Error"}, [o \in {"ok"} |-> NextGroup])

\* the inner catch block: after 5 seconds the delete is sent once more; if
\* it raises, the error leaves the catch block for the outer catch
SgAfterRetry_Again(outcome, next) == IF outcome = "ok" THEN next ELSE "g_retry"

SgAfterRetry(outcome, next) == IF outcome = "ok" THEN next ELSE "s_done"

SgRetry ==
  /\ pc = "g_retry"
  /\ fn = "deleteSecurityGroups"
  /\ \E outcome \in {"ok", "DependencyViolation", "Error"} :
       /\ SendTo("DeleteSecurityGroup", CurrentGroup, outcome)
       /\ pc' = SgAfterRetry(outcome, NextGroup)
       /\ ret' = IF pc' # "s_done" THEN ret
                 ELSE IF outcome = "ok" THEN "undefined"
                 ELSE "SECURITY_GROUPS_ERROR"
  /\ UNCHANGED <<orchVars, callVars, maxAttempts, fn, attempts, queries,
                 svcArgs, subnetLocals>>

(* EC2Service.createEC2Instance *)

\* the error a failed step of the try block throws: getInstanceProfileArn
\* throws IAM_ERROR; createKeyPair and the launch throw EC2_ERROR or an
\* error of the client, which the catch block wraps in EC2_ERROR
Ec2ErrorCode(command) ==
  IF command = "GetInstanceProfile" THEN "IAM_ERROR" ELSE "EC2_ERROR"

\* createEC2Instance(subnetId, securityGroupId, instanceProfileName)
CallCreateEC2Instance ==
  /\ ServiceIdle
  /\ fn' = "createEC2Instance"
  /\ pc' = "e_arn"
  /\ UNCHANGED <<orchVars, callVars, maxAttempts, sent, attempts, queries,
                 ret, svcArgs, subnetLocals>>

\* first statement of the catch block: `await this.deleteKeyPair()`
Ec2Catch_NoCleanup == "e_rethrow"

Ec2Catch == "e_cleanup"

\* one step of the try block; "missing": the answer lacks the value the
\* step reads from it (the ARN, the key material, the instance id)
Ec2Step(from, command, next) ==
  /\ pc = from
  /\ fn = "createEC2Instance"
  /\ \E outcome \in {"ok", "missing", "Error"} :
       /\ Send(command, outcome)
       /\ IF outcome = "ok"
            THEN /\ pc' = next
                 /\ ret' = IF next = "s_done" THEN "instanceId" ELSE ret
            ELSE /\ pc' = Ec2Catch
                 /\ ret' = ret
  /\ UNCHANGED <<orchVars, callVars, maxAttempts, fn, attempts, queries,
                 svcArgs, subnetLocals>>

Ec2GetInstanceProfileArn == Ec2Step("e_arn", "GetInstanceProfile", "e_key")

Ec2CreateKeyPair == Ec2Step("e_key", "CreateKeyPair", "e_run")

Ec2RunInstances == Ec2Step("e_run", "RunInstances", "s_done")

\* deleteKeyPair(): when it raises, its EC2_ERROR leaves the catch block
Ec2DeleteKeyPair ==
  /\ pc = "e_cleanup"
  /\ fn = "createEC2Instance"
  /\ \E outcome \in {"ok", "Error"} :
       /\ Send("DeleteKeyPair", outcome)
       /\ IF outcome = "ok" THEN pc' = "e_rethrow" /\ ret' = ret
                            ELSE Throw("EC2_ERROR")
  /\ UNCHANGED <<orchVars, callVars, maxAttempts, fn, attempts, queries,
                 svcArgs, subnetLocals>>

\* the rest of the catch block: the caught error is thrown again
Ec2Rethrow ==
  /\ pc = "e_rethrow"
  /\ fn = "createEC2Instance"
  /\ LET failed == SelectSeq(sent, LAMBDA c : c.command # "DeleteKeyPair"
                                              /\ c.outcome # "ok")
     IN  Throw(Ec2ErrorCode(failed[1].command))
  /\ UNCHANGED <<orchVars, callVars, maxAttempts, fn, sent, attempts, queries,
                 svcArgs, subnetLocals>>

(* SubnetService.createSubnets *)

\* the VPC createVpc makes (10.0.0.0/16) and an account's default VPC
Networks == {<<10, 0, 0, 0, 16>>, <<172, 31, 0, 0, 16>>}

\* blocks the subnets already in the VPC may have: /24 blocks of the
\* allocator's own shape, the block of index 0 and a /25 inside block 1
ExistingCandidates(net) ==
  {<<net[1], net[2], x, 0, 24>> : x \in 0..MaxThirdOctet}
    \cup {<<net[1], net[2], 1, 128, 25>>}

\* a VPC whose /24 blocks of third octet `first` to 255 are all in use
BlocksFrom(net, first) == {<<net[1], net[2], x, 0, 24>> : x \in first..255}

\* the sets of existing blocks getExistingSubnets may return
ExistingSets(net) ==
  SUBSET ExistingCandidates(net) \cup {BlocksFrom(net, 0), BlocksFrom(net, 1)}

\* `${cidrParts[0]}.${cidrParts[1]}.${subnetIndex}.0/24`, where cidrParts are
\* the octets of vpcCidrBlock before the "/"
SubnetCidr(cidrBlock, index) == <<cidrBlock[1], cidrBlock[2], index, 0, 24>>

\* `Math.min(2, availabilityZones.length)`
SubnetCount(zones) == IF zones < 2 THEN zones ELSE 2

\* `do { subnetCidr = ...; subnetIndex++ } while (exisitingCidrs.has(
\* subnetCidr))`: the index of the block the loop ends with
FirstFree_NoSkip(cidrBlock, index, known) == index

\* (the loop leaves with the least index from `index` on whose block is not
\* in the set; it passes at most as many indices as the set has members)
FirstFree(cidrBlock, index, known) ==
  CHOOSE free \in index..(index + Cardinality(known)) :
    /\ SubnetCidr(cidrBlock, free) \notin known
    /\ \A taken \in index..(free - 1) : SubnetCidr(cidrBlock, taken) \in known

\* `exisitingCidrs`: what getExistingSubnets returned, which is [] when
\* its DescribeSubnets raised
KnownCidrs ==
  IF sent # <<>> /\ sent[1].outcome = "ok" THEN existingCidrs ELSE {}

\* createSubnets(vpcId, vpcCidrBlock, availabilityZones)
CallCreateSubnets ==
  /\ ServiceIdle
  /\ \E net \in Networks, zones \in 0..MaxZones :
       \E existing \in ExistingSets(net) :
         /\ vpcCidrBlock' = net
         /\ availabilityZones' = zones
         /\ existingCidrs' = existing
  /\ fn' = "createSubnets"
  /\ pc' = "n_existing"
  /\ subnetIndex' = 1
  /\ subnetCidrs' = <<>>
  /\ UNCHANGED <<orchVars, callVars, maxAttempts, sent, attempts, queries,
                 ret, securityGroupIds>>

\* getExistingSubnets(vpcId), then the first test of the `for` loop
SubnetsGetExisting ==
  /\ pc = "n_existing"
  /\ fn = "createSubnets"
  /\ \E outcome \in {"ok", "Error"} : Send("DescribeSubnets", outcome)
  /\ IF 0 < SubnetCount(availabilityZones)
       THEN pc' = "n_create" /\ ret' = ret
       ELSE pc' = "s_done" /\ ret' = "subnetIds"
  /\ UNCHANGED <<orchVars, callVars, maxAttempts, fn, attempts, queries,
                 svcArgs, subnetLocals>>

\* one iteration of the `for` loop: pick the block, send CreateSubnet; a
\* send that raises goes to the catch block, which throws SUBNET_ERROR
SubnetsCreate ==
  /\ pc = "n_create"
  /\ fn = "createSubnets"
  /\ LET index == FirstFree(vpcCidrBlock, subnetIndex, KnownCidrs)
     IN  /\ subnetIndex' = index + 1
         /\ \E outcome \in {"ok", "Error"} :
              /\ Send("CreateSubnet", outcome)
              /\ IF outcome = "ok"
                   THEN /\ subnetCidrs' =
                             Append(subnetCidrs, SubnetCidr(vpcCidrBlock, index))
                        /\ IF Len(subnetCidrs) + 1 < SubnetCount(availabilityZones)
                             THEN pc' = "n_create" /\ ret' = ret
                             ELSE pc' = "s_done" /\ ret' = "subnetIds"
                   ELSE /\ subnetCidrs' = subnetCidrs
                        /\ Throw("SUBNET_ERROR")
  /\ UNCHANGED <<orchVars, callVars, maxAttempts, fn, attempts, queries,
                 svcArgs>>

(* BaseService: the identity of a manager and the tags it writes *)

\* values nanoid(8) returns
NanoIds == {"V1StGXR8", "Z5jdHi6B"}

\* values of config.appName
AppNames == {"shop", "blog"}

\* getCommonTags(resourceName) without the Name tag, whose value is a fresh
\* random name that nothing filters on
getCommonTags(name, id) ==
  {[Key |-> "AsobiAppName", Value |-> name],
   [Key |-> "UniqueId", Value |-> id],
   [Key |-> "CreatedBy", Value |-> "asobi"]}

\* `new InfrastructureService(config, configService)`: the constructor
\* builds the six managers; the constructor of each of them calls
\* BaseService's, which draws `this.uniqueId = nanoid(8)`
NewInfrastructureService ==
  /\ ServiceIdle
  /\ \E name \in AppNames, ids \in [Managers -> NanoIds] :
       /\ appName' = name
       /\ uniqueId' = ids
  /\ fn' = "InfrastructureService"
  /\ pc' = "s_done"
  /\ UNCHANGED <<orchVars, maxAttempts, sent, attempts, queries, ret, svcArgs,
                 subnetLocals, tags, vpcLocals, listeners,
                 attachedPolicies>>

-----------------------------------------------------------------------------
(* The list operations: getSubnets, getSecurityGroups, getInstanceProfile,  *)
(* getInstance                                                              *)

ListOps == {"getSubnets", "getSecurityGroups", "getInstanceProfile",
            "getInstance"}

\* the manager an operation belongs to
ManagerOf(op) ==
  CASE op = "getSubnets" -> "subnet"
    [] op = "getSecurityGroups" -> "securityGroup"
    [] op = "getInstanceProfile" -> "iam"
    [] op = "getInstance" -> "ec2"

\* the command the operation sends
ListCommand(op) ==
  CASE op = "getSubnets" -> "DescribeSubnets"
    [] op = "getSecurityGroups" -> "DescribeSecurityGroups"
    [] op = "getInstanceProfile" -> "ListInstanceProfiles"
    [] op = "getInstance" -> "DescribeInstances"

\* the tags a resource must carry to be returned: the `tag:<Key>` filters of
\* the Describe commands, the tag.Key / tag.Value tests of getInstanceProfile
ListFilters(op, name, id) ==
  IF op = "getInstance"
    THEN {[Key |-> "AppName", Value |-> name],
          [Key |-> "uniqueId", Value |-> id]}
    ELSE {[Key |-> "AppName", Value |-> name],
          [Key |-> "UniqueId", Value |-> id]}

\* a resource is returned when it carries every tag that is filtered on
Matches(filters, resourceTags) ==
  resourceTags # {} /\ filters \subseteq resourceTags

\* what the operation returns when the answer holds no resource
NothingFound(op) ==
  IF op \in {"getSubnets", "getSecurityGroups"} THEN "[]" ELSE "null"

\* the catch block of a list operation
ListCatch_Rethrows(op) == "EC2_ERROR"

ListCatch(op) == NothingFound(op)

\* a manager is constructed, it has or has not created its resource (tagged
\* with getCommonTags), and its list operation is called
CallList ==
  /\ ServiceIdle
  /\ \E op \in ListOps, name \in AppNames, id \in NanoIds,
        created \in BOOLEAN :
       /\ fn' = op
       /\ appName' = name
       /\ uniqueId' = [m \in Managers |->
                         IF m = ManagerOf(op) THEN id ELSE ""]
       /\ tags' = IF created THEN getCommonTags(name, id) ELSE {}
  /\ pc' = "l_query"
  /\ UNCHANGED <<orchVars, maxAttempts, sent, attempts, queries, ret, svcArgs,
                 subnetLocals, vpcLocals, listeners,
                 attachedPolicies>>

\* the one query of the operation, inside its try block
ListQuery ==
  /\ pc = "l_query"
  /\ \E outcome \in {"ok", "Error"} :
       /\ Send(ListCommand(fn), outcome)
       /\ ret' = IF outcome = "ok"
                   THEN IF Matches(ListFilters(fn, appName,
                                               uniqueId[ManagerOf(fn)]), tags)
                          THEN "found"
                          ELSE NothingFound(fn)
                   ELSE ListCatch(fn)
  /\ pc' = "s_done"
  /\ UNCHANGED <<orchVars, callVars, maxAttempts, fn, attempts, queries,
                 svcArgs, subnetLocals>>

-----------------------------------------------------------------------------
(* VpcService.selectOrCreateVpc when the user selects an existing VPC *)

\* verifyVpcConfiguration's { id, configured } for a piece that was found
Found(id) == [id |-> id, configured |-> TRUE]

\* ... and for one that was not: { id: null, configured: false }
Missing == [id |-> "", configured |-> FALSE]

IsGateway(id) == id \in {"igw-existing", "igw-new"}

IsRouteTable(id) == id \in {"rtb-existing", "rtb-new"}

\* the user answers yes to "use an existing VPC" and selects one
CallSelectOrCreateVpc ==
  /\ ServiceIdle
  /\ fn' = "selectOrCreateVpc"
  /\ pc' = "v_gateway"
  /\ UNCHANGED <<orchVars, callVars, maxAttempts, sent, attempts, queries,
                 ret, svcArgs, subnetLocals>>

\* verifyVpcConfiguration, first query: the gateway attached to the VPC
VpcDescribeGateways ==
  /\ pc = "v_gateway"
  /\ \E outcome \in {"attached", "none", "Error"} :
       /\ Send("DescribeInternetGateways", outcome)
       /\ IF outcome = "Error"
            THEN Throw("VPC_SELECTION_FAILED") /\ UNCHANGED internetGateway
            ELSE /\ internetGateway' = IF outcome = "attached"
                                         THEN Found("igw-existing")
                                         ELSE Missing
                 /\ pc' = "v_routes"
                 /\ ret' = ret
  /\ UNCHANGED <<orchVars, listVars, listeners, attachedPolicies,
                 routeTable, igId, rtId,
                 maxAttempts, fn, attempts, queries, svcArgs, subnetLocals>>

\* verifyVpcConfiguration, second query: a route table of the VPC that
\* routes 0.0.0.0/0 through that gateway (none can when there is no gateway)
VpcDescribeRouteTables ==
  /\ pc = "v_routes"
  /\ \E outcome \in {"routed", "none", "Error"} :
       /\ outcome = "routed" => internetGateway.configured
       /\ Send("DescribeRouteTables", outcome)
       /\ IF outcome = "Error"
            THEN Throw("VPC_SELECTION_FAILED") /\ UNCHANGED routeTable
            ELSE /\ routeTable' = IF outcome = "routed"
                                    THEN Found("rtb-existing")
                                    ELSE Missing
                 /\ pc' = "v_configure"
                 /\ ret' = ret
  /\ UNCHANGED <<orchVars, listVars, listeners, attachedPolicies,
                 internetGateway, igId, rtId,
                 maxAttempts, fn, attempts, queries, svcArgs, subnetLocals>>

\* the call `this.configureExistingVpc(vpcId, internetGateway, routeTable)`
\* of selectOrCreateVpc: arguments are bound by position to the parameters
\* (vpcId, routeTable, internetGateway)
ConfigureArgs ==
  [routeTable |-> internetGateway, internetGateway |-> routeTable]

\* where configureExistingVpc goes on after the gateway part
AfterGateway ==
  IF ConfigureArgs.routeTable.configured THEN "v_return" ELSE "v_createRt"

\* `let igId = internetGateway.id ? ... : ""`, `let rtId = ...`, then
\* `if (!internetGateway.configured)`
VpcConfigure ==
  /\ pc = "v_configure"
  /\ igId' = ConfigureArgs.internetGateway.id
  /\ rtId' = ConfigureArgs.routeTable.id
  /\ pc' = IF ConfigureArgs.internetGateway.configured
             THEN AfterGateway
             ELSE "v_createIgw"
  /\ UNCHANGED <<orchVars, listVars, listeners, attachedPolicies,
                 internetGateway, routeTable,
                 maxAttempts, fn, sent, attempts, queries, ret, svcArgs,
                 subnetLocals>>

\* one command of configureExistingVpc's try block; the catch rethrows as
\* VPC_ERROR and selectOrCreateVpc's catch as VPC_SELECTION_FAILED
VpcStep(from, command, next) ==
  /\ pc = from
  /\ \E outcome \in {"ok", "Error"} :
       /\ Send(command, outcome)
       /\ IF outcome = "ok"
            THEN pc' = next /\ ret' = ret
            ELSE Throw("VPC_SELECTION_FAILED")
  /\ igId' = IF command = "CreateInternetGateway" /\ pc' = next
               THEN "igw-new" ELSE igId
  /\ rtId' = IF command = "CreateRouteTable" /\ pc' = next
               THEN "rtb-new" ELSE rtId
  /\ UNCHANGED <<orchVars, listVars, listeners, attachedPolicies,
                 internetGateway, routeTable,
                 maxAttempts, fn, attempts, queries, svcArgs, subnetLocals>>

VpcCreateGateway == VpcStep("v_createIgw", "CreateInternetGateway", "v_attach")

VpcAttachGateway == VpcStep("v_attach", "AttachInternetGateway", AfterGateway)

VpcCreateRouteTable == VpcStep("v_createRt", "CreateRouteTable", "v_route")

VpcCreateRoute == VpcStep("v_route", "CreateRoute", "v_return")

\* `return { vpcId, routeTableId: rtId, internetGatewayId: igId }`, passed on
\* by selectOrCreateVpc with isNewVpc: false
VpcReturn ==
  /\ pc = "v_return"
  /\ pc' = "s_done"
  /\ ret' = "vpcDetails"
  /\ UNCHANGED <<orchVars, callVars, maxAttempts, fn, sent, attempts, queries,
                 svcArgs, subnetLocals>>

-----------------------------------------------------------------------------
(* ALBService.deleteLoadBalancer *)

\* most listeners DescribeListeners returns
MaxListeners == 2

\* listeners whose DeleteListener command has succeeded
ListenersDeleted ==
  Cardinality({i \in 1..Len(sent) :
                 sent[i].command = "DeleteListener" /\ sent[i].outcome = "ok"})

\* the `for (const listener of listeners.Listeners || [])` loop: the
\* statement after it is reached when every listener has been deleted
AfterListener_SkipRest(deleted, found) == "b_targetGroup"

AfterListener(deleted, found) ==
  IF deleted < found THEN "b_listener" ELSE "b_targetGroup"

\* deleteLoadBalancer(loadBalancerArn, targetGroupArn)
CallDeleteLoadBalancer ==
  /\ ServiceIdle
  /\ fn' = "deleteLoadBalancer"
  /\ pc' = "b_describe"
  /\ UNCHANGED <<orchVars, callVars, maxAttempts, sent, attempts, queries,
                 ret, svcArgs, subnetLocals>>

\* DescribeListenersCommand
AlbDescribeListeners ==
  /\ pc = "b_describe"
  /\ \E outcome \in {"ok", "Error"}, found \in 0..MaxListeners :
       /\ outcome = "Error" => found = 0
       /\ Send("DescribeListeners", outcome)
       /\ listeners' = found
       /\ IF outcome = "ok"
            THEN pc' = AfterListener(0, found) /\ ret' = ret
            ELSE Throw("ALB_ERROR")
  /\ UNCHANGED <<orchVars, listVars, vpcLocals, attachedPolicies, maxAttempts,
                 fn, attempts, queries, svcArgs, subnetLocals>>

\* one command after the listing; the catch block turns every error into
\* ALB_ERROR
AlbStep(from, command, target, next) ==
  /\ pc = from
  /\ fn = "deleteLoadBalancer"
  /\ \E outcome \in {"ok", "Error"} :
       /\ SendTo(command, target, outcome)
       /\ IF outcome = "ok"
            THEN pc' = next /\ ret' = IF next = "s_done" THEN "ok" ELSE ret
            ELSE Throw("ALB_ERROR")
  /\ UNCHANGED <<orchVars, callVars, maxAttempts, fn, attempts, queries,
                 svcArgs, subnetLocals>>

\* DeleteListenerCommand for the next listener of the list
AlbDeleteListener ==
  AlbStep("b_listener", "DeleteListener", ListenersDeleted + 1,
          AfterListener(ListenersDeleted + 1, listeners))

AlbDeleteTargetGroup ==
  AlbStep("b_targetGroup", "DeleteTargetGroup", 0, "b_loadBalancer")

AlbDeleteLoadBalancer ==
  AlbStep("b_loadBalancer", "DeleteLoadBalancer", 0, "s_done")

-----------------------------------------------------------------------------
(* VpcService.deleteVpc *)

\* the commands of deleteVpc's try block, in the order they are awaited
DeleteVpcCommands_VpcBeforeGateway ==
  <<"DeleteRouteTable", "DeleteVpc", "DetachInternetGateway",
    "DeleteInternetGateway">>

DeleteVpcCommands ==
  <<"DeleteRouteTable", "DetachInternetGateway", "DeleteInternetGateway",
    "DeleteVpc">>

\* deleteVpc(vpcId, routeTableId, internetGatewayId)
CallDeleteVpc ==
  /\ ServiceIdle
  /\ fn' = "deleteVpc"
  /\ pc' = "dv_send"
  /\ UNCHANGED <<orchVars, callVars, maxAttempts, sent, attempts, queries,
                 ret, svcArgs, subnetLocals>>

\* the next awaited command of the try block; the catch block turns every
\* error into VPC_ERROR
VpcDeleteStep ==
  /\ pc = "dv_send"
  /\ fn = "deleteVpc"
  /\ \E outcome \in {"ok", "Error"} :
       /\ Send(DeleteVpcCommands[Len(sent) + 1], outcome)
       /\ IF outcome = "ok"
            THEN IF Len(sent) + 1 = Len(DeleteVpcCommands)
                   THEN pc' = "s_done" /\ ret' = "ok"
                   ELSE pc' = pc /\ ret' = ret
            ELSE Throw("VPC_ERROR")
  /\ UNCHANGED <<orchVars, callVars, maxAttempts, fn, attempts, queries,
                 svcArgs, subnetLocals>>

-----------------------------------------------------------------------------
(* IAMService.deleteInstanceProfile *)

\* most policies ListAttachedRolePolicies returns
MaxAttached == 2

\* policies whose DetachRolePolicy command has succeeded
PoliciesDetached ==
  Cardinality({i \in 1..Len(sent) :
                 sent[i].command = "DetachRolePolicy" /\ sent[i].outcome = "ok"})

\* `if (roleName)`: the role steps are skipped when the profile has no role
AfterProfileLookup_RoleIgnored(outcome) == "ip_profile"

AfterProfileLookup(outcome) ==
  IF outcome = "role" THEN "ip_list" ELSE "ip_profile"

\* the `for (const policy of attachedPolicies.AttachedPolicies || [])` loop
AfterDetach(detached, found) ==
  IF detached < found THEN "ip_detach" ELSE "ip_remove"

\* deleteInstanceProfile(profileName)
CallDeleteInstanceProfile ==
  /\ ServiceIdle
  /\ fn' = "deleteInstanceProfile"
  /\ pc' = "ip_get"
  /\ UNCHANGED <<orchVars, callVars, maxAttempts, sent, attempts, queries,
                 ret, svcArgs, subnetLocals>>

\* GetInstanceProfileCommand: the answer names the profile's first role, or
\* none; the catch block turns every error into IAM_ERROR
IamGetProfileRole ==
  /\ pc = "ip_get"
  /\ \E outcome \in {"role", "norole", "Error"} :
       /\ Send("GetInstanceProfile", outcome)
       /\ IF outcome = "Error"
            THEN Throw("IAM_ERROR")
            ELSE pc' = AfterProfileLookup(outcome) /\ ret' = ret
  /\ UNCHANGED <<orchVars, callVars, maxAttempts, fn, attempts, queries,
                 svcArgs, subnetLocals>>

\* ListAttachedRolePoliciesCommand
IamListAttachedPolicies ==
  /\ pc = "ip_list"
  /\ \E outcome \in {"ok", "Error"}, found \in 0..MaxAttached :
       /\ outcome = "Error" => found = 0
       /\ Send("ListAttachedRolePolicies", outcome)
       /\ attachedPolicies' = found
       /\ IF outcome = "ok"
            THEN pc' = AfterDetach(0, found) /\ ret' = ret
            ELSE Throw("IAM_ERROR")
  /\ UNCHANGED <<orchVars, listVars, vpcLocals, listeners, maxAttempts, fn,
                 attempts, queries, svcArgs, subnetLocals>>

\* one awaited command of the try block
ProfileStep(from, command, target, next) ==
  /\ pc = from
  /\ fn = "deleteInstanceProfile"
  /\ \E outcome \in {"ok", "Error"} :
       /\ SendTo(command, target, outcome)
       /\ IF outcome = "ok"
            THEN pc' = next /\ ret' = IF next = "s_done" THEN "ok" ELSE ret
            ELSE Throw("IAM_ERROR")
  /\ UNCHANGED <<orchVars, callVars, maxAttempts, fn, attempts, queries,
                 svcArgs, subnetLocals>>

\* DetachRolePolicyCommand for the next policy of the list
IamDetachPolicy ==
  ProfileStep("ip_detach", "DetachRolePolicy", PoliciesDetached + 1,
              AfterDetach(PoliciesDetached + 1, attachedPolicies))

IamRemoveRole ==
  ProfileStep("ip_remove", "RemoveRoleFromInstanceProfile", 0, "ip_role")

IamDeleteRole == ProfileStep("ip_role", "DeleteRole", 0, "ip_profile")

IamDeleteProfile ==
  ProfileStep("ip_profile", "DeleteInstanceProfile", 0, "s_done")

-----------------------------------------------------------------------------
\* the caller has the outcome; the next call starts afresh
ServiceReturns ==
  /\ pc = "s_done"
  /\ pc' = "idle"
  /\ fn' = "none"
  /\ ret' = "none"
  /\ sent' = <<>>
  /\ attempts' = 0
  /\ queries' = 0
  /\ maxAttempts' = DefaultMaxAttempts
  /\ securityGroupIds' = <<>>
  /\ vpcCidrBlock' = <<10, 0, 0, 0, 16>>
  /\ availabilityZones' = 0
  /\ existingCidrs' = {}
  /\ subnetIndex' = 1
  /\ subnetCidrs' = <<>>
  /\ uniqueId' = NotConstructed
  /\ appName' = ""
  /\ tags' = {}
  /\ internetGateway' = NotVerified
  /\ routeTable' = NotVerified
  /\ igId' = ""
  /\ rtId' = ""
  /\ listeners' = 0
  /\ attachedPolicies' = 0
  /\ UNCHANGED orchVars

NextServices ==
  \/ CallPoller \/ Poll
  \/ CallCreateInstanceProfile \/ VerifyIamPermissions \/ IamCreateRole
  \/ IamVerifyRole \/ IamAttachPolicies \/ IamCreateProfile
  \/ IamVerifyProfile \/ IamAddRole \/ IamWaitPropagation
  \/ CallDeleteSecurityGroups \/ SgDescribe \/ SgRevoke \/ SgDelete \/ SgRetry
  \/ CallCreateEC2Instance \/ Ec2GetInstanceProfileArn \/ Ec2CreateKeyPair
  \/ Ec2RunInstances \/ Ec2DeleteKeyPair \/ Ec2Rethrow
  \/ CallCreateSubnets \/ SubnetsGetExisting \/ SubnetsCreate
  \/ NewInfrastructureService \/ CallList \/ ListQuery
  \/ CallSelectOrCreateVpc \/ VpcDescribeGateways \/ VpcDescribeRouteTables
  \/ VpcConfigure \/ VpcCreateGateway \/ VpcAttachGateway
  \/ VpcCreateRouteTable \/ VpcCreateRoute \/ VpcReturn
  \/ CallDeleteLoadBalancer \/ AlbDescribeListeners \/ AlbDeleteListener
  \/ AlbDeleteTargetGroup \/ AlbDeleteLoadBalancer
  \/ CallDeleteVpc \/ VpcDeleteStep
  \/ CallDeleteInstanceProfile \/ IamGetProfileRole \/ IamListAttachedPolicies
  \/ IamDetachPolicy \/ IamRemoveRole \/ IamDeleteRole \/ IamDeleteProfile
  \/ ServiceReturns

SpecServices == Init /\ [][NextServices]_vars

-----------------------------------------------------------------------------
(* Vocabulary of the properties *)

CallsOf(phase) == SelectSeq(calls, LAMBDA c : c.phase = phase)

CreateCalls == CallsOf("create")

Invocations(phase, op) ==
  Cardinality({i \in 1..Len(calls) :
                 calls[i].phase = phase /\ calls[i].op = op})

\* the delete operation of a resource-producing stage
StageDeleteOp(n) ==
  CASE n = 1 -> "deleteVpc"
    [] n = 2 -> "deleteSubnets"
    [] n = 3 -> "deleteSecurityGroups"
    [] n = 4 -> "deleteInstanceProfile"
    [] n = 5 -> "terminateInstance"
    [] n = 6 -> "deleteLoadBalancer"

\* the label retryOperation is given for each delete operation
FailureLabel(op) ==
  CASE op = "deregisterTarget" -> "target deregistration"
    [] op = "deleteLoadBalancer" -> "load balancer"
    [] op = "terminateInstance" -> "EC2 instance"
    [] op = "deleteSecurityGroups" -> "security groups"
    [] op = "deleteSubnets" -> "subnets"
    [] op = "deleteVpc" -> "VPC"
    [] op = "deleteInstanceProfile" -> "IAM instance profile"

\* createInfrastructure has finished after a statement of its try block raised
CreateRunFailed == cmd = "create" /\ pc = "done" /\ error # "none"

\* deleteInfrastructure has finished
DeleteRunFinished == cmd = "delete" /\ pc = "done"

\* ... after it went through its steps (the app-name guard let it pass)
DeleteRunAttempted == DeleteRunFinished /\ result.error # "App not found"

\* the Resource Set the delete run started with
StartResources ==
  IF result.error = "App not found" THEN config.resources ELSE resources

\* createInfrastructure is about to invoke the create operation of a stage
AtCreateStage ==
  /\ cmd = "create"
  /\ pc \in {"c_vpc", "c_subnets", "c_sg", "c_iam", "c_ec2", "c_alb",
             "c_register", "c_health"}

\* stage n's create operation has returned successfully in this run
Completed(n) ==
  \E i \in 1..Len(calls) :
    calls[i].phase = "create" /\ calls[i].op = CreateOps[n] /\ calls[i].ok

-----------------------------------------------------------------------------
(* C1..C10 *)

\* C1: in the rollback of a failed create run the deletes are invoked in
\* reverse creation order: never the delete of an earlier-created stage
\* before the delete of a later-created stage.
C1_RollbackInReverseCreationOrder ==
  \A i, j \in 1..Len(calls) :
    (i < j /\ calls[i].phase = "rollback" /\ calls[j].phase = "rollback")
      => ~(StageOrd(calls[i].op) < StageOrd(calls[j].op))

\* C2: a delete that fails during the rollback does not abort it: when the
\* failed create run has finished, the delete operation of every resource
\* recorded in the Resource Set has been invoked.
C2_RollbackContinuesAfterFailure ==
  CreateRunFailed =>
    \A n \in ProducingStages :
      config.resources[StageField(n)] =>
        Invocations("rollback", StageDeleteOp(n)) >= 1

\* C3: after a create run that failed, the Resource Set is empty, in memory
\* and on disk.
C3_FailedCreateLeavesEmptySet ==
  CreateRunFailed =>
    /\ config.resources = EmptyResources
    /\ disk.resources = EmptyResources

\* C4: a create run in which a stage failed returns success=false with the
\* originating error and no resources value.
C4_FailedCreateReturnsOriginatingError ==
  CreateRunFailed => result = Returned(FALSE, error, FALSE)

\* C5: a delete run invokes exactly once the delete operation of every stage
\* whose Resource Set field was non-null when the run started, whatever the
\* outcome of the earlier deletes; no delete operation is invoked twice.
C5_DeleteAttemptsEveryStage ==
  /\ cmd = "delete" =>
       \A op \in DeleteOps : Invocations("delete", op) <= 1
  /\ DeleteRunFinished =>
       \A n \in ProducingStages :
         StartResources[StageField(n)] =>
           Invocations("delete", StageDeleteOp(n)) = 1

C5_Witness ==
  /\ DeleteRunFinished
  /\ \A n \in ProducingStages : StartResources[StageField(n)]
  /\ \E i, j \in 1..Len(calls) :
       /\ i < j
       /\ calls[i].op = "deleteLoadBalancer" /\ ~calls[i].ok
       /\ calls[j].op = "deleteInstanceProfile"

\* C6: the failure list of a delete run holds, in order and once each, the
\* labels of exactly the delete operations that were invoked and raised.
C6_FailureListExact ==
  cmd = "delete" =>
    LET raised == SelectSeq(calls, LAMBDA c : c.phase = "delete" /\ ~c.ok)
    IN  failedResources =
          [i \in 1..Len(raised) |-> FailureLabel(raised[i].op)]

C6_Witness ==
  /\ DeleteRunFinished
  /\ Len(failedResources) = 2
  /\ \E i \in 1..Len(calls) : calls[i].ok /\ calls[i].op = "deleteVpc"

\* C7: when deleteInfrastructure returns no write is in flight, and once the
\* writes it issued have completed the file holds the empty Resource Set.
C7_DeletePersistsEmptySet ==
  /\ DeleteRunAttempted => pending = {}
  /\ (cmd = "delete" /\ pc = "idle" /\ result.success /\ pending = {})
       => disk.resources = EmptyResources

\* C8: a delete run that went through its steps returns success=true, and
\* the advisory error message is present exactly when the failure list is
\* not empty.
C8_DeleteReturnsSuccessWithAdvisory ==
  DeleteRunAttempted =>
    /\ result.kind = "return"
    /\ result.success
    /\ (result.error # "undefined") <=> (failedResources # <<>>)

C8_Witness ==
  /\ DeleteRunAttempted
  /\ failedResources # <<>>
  /\ result.success

\* C9: the create operations are invoked in the fixed order of the stages,
\* each only after all its predecessors returned successfully, and none
\* after the first failure (nor once the rollback has begun).
C9_CreateInFixedOrder ==
  /\ Len(CreateCalls) <= Len(CreateOps)
  /\ \A i \in 1..Len(CreateCalls) :
       /\ CreateCalls[i].op = CreateOps[i]
       /\ i < Len(CreateCalls) => CreateCalls[i].ok
  /\ \A i, j \in 1..Len(calls) :
       (i < j /\ calls[i].phase = "rollback") => calls[j].phase = "rollback"

C9_Witness ==
  /\ cmd = "create"
  /\ pc = "r_return"
  /\ Len(CreateCalls) = 5
  /\ ~CreateCalls[5].ok

\* C10: whenever a create operation is about to be invoked, every write of
\* the run has completed and the persisted Resource Set holds the
\* identifiers of exactly the stages completed so far.
C10_PersistedHoldsExactlyCompleted ==
  AtCreateStage =>
    /\ disk = config
    /\ \A n \in ProducingStages :
         disk.resources[StageField(n)] <=> Completed(n)

-----------------------------------------------------------------------------
(* C11..C13 *)

\* C11: in a delete run a Resource Set field that was non-null at the start
\* of the run is null/empty in this.config only if the delete operation of
\* its stage was invoked and succeeded.
C11_ClearedOnlyAfterSuccessfulDelete ==
  (cmd = "delete" /\ pc # "idle") =>
    \A n \in ProducingStages :
      (resources[StageField(n)] /\ ~config.resources[StageField(n)]) =>
        \E i \in 1..Len(calls) :
          /\ calls[i].phase = "delete"
          /\ calls[i].op = StageDeleteOp(n)
          /\ calls[i].ok

\* C12: in a delete run the delete operations are invoked in the reverse of
\* creation order: never the delete of an earlier-created stage before the
\* delete of a later-created stage.
C12_DeleteInReverseCreationOrder ==
  \A i, j \in 1..Len(calls) :
    (i < j /\ calls[i].phase = "delete" /\ calls[j].phase = "delete")
      => ~(StageOrd(calls[i].op) < StageOrd(calls[j].op))

\* C13: in a create run no create operation and no updateConfigFile call
\* happens before an affirmative answer to the confirmation prompt; after a
\* negative answer createInfrastructure has returned {success: false,
\* "Operation cancelled by user"} having invoked no create operation, no
\* rollback delete and no write.
C13_NoStageBeforeConfirmation ==
  cmd = "create" =>
    /\ \A i \in 1..Len(calls) :
         calls[i].phase \in {"create", "write"} =>
           \E j \in 1..(i - 1) : calls[j].phase = "prompt" /\ calls[j].ok
    /\ (\E i \in 1..Len(calls) : calls[i].phase = "prompt" /\ ~calls[i].ok) =>
         /\ pc = "done"
         /\ result = Returned(FALSE, "Operation cancelled by user", FALSE)
         /\ \A i \in 1..Len(calls) : calls[i].phase = "prompt"

C13_Witness ==
  /\ cmd = "create"
  /\ pc = "done"
  /\ calls = <<Call("confirm", FALSE, "prompt")>>

-----------------------------------------------------------------------------
(* C14..C20: Lifecycle Manager operations (SpecServices) *)

\* the poller p has returned
PollerReturned(p) == fn = p /\ pc = "s_done"

\* C14: a fixed-interval poller called with maxAttempts = N returns true or
\* false and never raises; it returns false only when N passes have been
\* counted, after exactly N queries if every query succeeded; it returns
\* true at the query that first reports the awaited state, which is query
\* i <= N when the queries before it succeeded.
C14_PollerQueriesExactlyMaxAttempts ==
  \A p \in Pollers :
    PollerReturned(p) =>
      /\ ret \in {"true", "false"}
      /\ ret = "false" =>
           /\ attempts = maxAttempts
           /\ queries >= maxAttempts
           /\ queries = attempts => queries = maxAttempts
      /\ ret = "true" =>
           /\ attempts < maxAttempts
           /\ queries >= attempts + 1
           /\ queries = attempts + 1 => queries <= maxAttempts

C14_Witness ==
  /\ PollerReturned("waitForInstanceToBeTerminated")
  /\ maxAttempts = 2
  /\ ret = "false"
  /\ queries = 2

\* C15: in waitForInstanceToBeRunning and waitForInstanceToBeTerminated a
\* query that raises counts as an attempt: while every query so far has
\* raised, no more than maxAttempts queries have been sent.
C15_FailedQueryCountsAsAttempt ==
  (/\ fn \in {"waitForInstanceToBeRunning", "waitForInstanceToBeTerminated"}
   /\ attempts = 0
   /\ ret # "true") => queries <= maxAttempts

\* createInstanceProfile has returned or thrown
InstanceProfileDone == fn = "createInstanceProfile" /\ pc = "s_done"

\* C16: createInstanceProfile called with maxAttempts = N, all of whose
\* commands succeeded and none of whose propagation checks found a role
\* attached, has looked the profile up N + 1 times (the verification and N
\* propagation checks) and rejects with IAM_PROFILE_PROPAGATION_TIMEOUT.
C16_PropagationTimeoutAfterMaxAttempts ==
  (/\ InstanceProfileDone
   /\ Sends("AddRoleToInstanceProfile") = 1
   /\ \A i \in 1..Len(sent) :
        sent[i].outcome \in {"ok", "no role", "NoSuchEntityException"})
    => /\ Sends("GetInstanceProfile") = maxAttempts + 1
       /\ attempts = maxAttempts
       /\ ret = "IAM_PROFILE_PROPAGATION_TIMEOUT"

C16_Witness ==
  /\ InstanceProfileDone
  /\ maxAttempts = 2
  /\ Sends("GetInstanceProfile") = 3
  /\ ret = "IAM_PROFILE_PROPAGATION_TIMEOUT"

\* C20: when the permission check of createInstanceProfile is answered with
\* AccessDeniedException, the call has rejected with IAM_PERMISSION_ERROR
\* and the check is the only command it sent.
C20_PermissionDeniedFailsAtOnce ==
  (/\ fn = "createInstanceProfile"
   /\ \E i \in 1..Len(sent) :
        /\ sent[i].command = "ListInstanceProfiles"
        /\ sent[i].outcome = "AccessDeniedException")
    => /\ pc = "s_done"
       /\ ret = "IAM_PERMISSION_ERROR"
       /\ Len(sent) = 1

C20_Witness ==
  /\ InstanceProfileDone
  /\ sent = <<[command |-> "ListInstanceProfiles", target |-> 0,
               outcome |-> "AccessDeniedException"]>>

\* the DeleteSecurityGroup commands sent for group g, in order
DeletesOf(g) ==
  SelectSeq(sent, LAMBDA c : c.command = "DeleteSecurityGroup" /\ c.target = g)

\* C17: in deleteSecurityGroups a group's delete that is answered with
\* DependencyViolation is sent once more and never a third time: the second
\* delete follows only such an answer; when it succeeds the loop goes on
\* without an error, when it fails the call has rejected right there.
C17_DependencyViolationRetriedOnce ==
  fn = "deleteSecurityGroups" =>
    \A g \in 1..Len(securityGroupIds) :
      LET d == DeletesOf(g)
      IN  /\ Len(d) <= 2
          /\ Len(d) = 2 => d[1].outcome = "DependencyViolation"
          /\ (Len(d) = 1 /\ d[1].outcome = "DependencyViolation")
               => pc = "g_retry" /\ ret = "none"
          /\ (Len(d) = 2 /\ d[2].outcome = "ok")
               => (sent[Len(sent)].target = g => ret # "SECURITY_GROUPS_ERROR")
          /\ (Len(d) = 2 /\ d[2].outcome # "ok")
               => /\ pc = "s_done"
                  /\ ret = "SECURITY_GROUPS_ERROR"
                  /\ sent[Len(sent)] = d[2]

C17_Witness ==
  /\ fn = "deleteSecurityGroups"
  /\ pc = "s_done"
  /\ ret = "undefined"
  /\ Len(DeletesOf(2)) = 2
  /\ Len(DeletesOf(1)) = 1

\* C18: when createEC2Instance has failed at the launch call after the key
\* pair was created, it has sent exactly one DeleteKeyPair, and it rejects
\* only after sending it.
C18_KeyPairDeletedOnLaunchFailure ==
  (/\ fn = "createEC2Instance"
   /\ \E i \in 1..Len(sent) :
        sent[i].command = "RunInstances" /\ sent[i].outcome # "ok")
    => /\ Sends("DeleteKeyPair") <= 1
       /\ pc = "s_done" =>
            /\ Sends("DeleteKeyPair") = 1
            /\ sent[Len(sent)].command = "DeleteKeyPair"
            /\ ret = "EC2_ERROR"

C18_Witness ==
  /\ fn = "createEC2Instance"
  /\ pc = "s_done"
  /\ Len(sent) = 4
  /\ sent[3] = [command |-> "RunInstances", target |-> 0, outcome |-> "Error"]
  /\ sent[4].outcome = "ok"

\* createSubnets has returned the ids of the subnets it created
SubnetsReturned == fn = "createSubnets" /\ pc = "s_done" /\ ret = "subnetIds"

\* the blocks createSubnets created are pairwise distinct, none equals a
\* block the subnet listing returned, and all are a.b.x.0/24 with a.b the
\* first two octets of the VPC's block; with no subnets, 10.0.0.0/16 and
\* two zones they are 10.0.1.0/24 then 10.0.2.0/24
AllocatedBlocksAreFree ==
  /\ \A i, j \in 1..Len(subnetCidrs) :
       i # j => subnetCidrs[i] # subnetCidrs[j]
  /\ \A i \in 1..Len(subnetCidrs) :
       /\ subnetCidrs[i] \notin KnownCidrs
       /\ \E x \in 1..(Len(subnetCidrs) + Cardinality(KnownCidrs)) :
            subnetCidrs[i] = <<vpcCidrBlock[1], vpcCidrBlock[2], x, 0, 24>>
  /\ (/\ KnownCidrs = {}
      /\ vpcCidrBlock = <<10, 0, 0, 0, 16>>
      /\ availabilityZones = 2)
       => subnetCidrs = << <<10, 0, 1, 0, 24>>, <<10, 0, 2, 0, 24>> >>

-----------------------------------------------------------------------------
(* C21..C30 *)

\* a delete or rollback invocation of `op` that returned
DeletedBy(op) ==
  {i \in 1..Len(calls) :
     calls[i].op = op /\ calls[i].phase \in {"delete", "rollback"}
       /\ calls[i].ok}

\* C21: no delete run and no rollback issues the delete-network call for a
\* network that is the account's implicit default network.
C21_DefaultNetworkNeverDeleted ==
  DeletedBy("deleteVpc") # {} => ~defaultVpc

\* the operations of the Lifecycle Managers that delete a key pair
KeyPairDeletes == {"deleteKeyPair"}

\* C22: a delete run whose Resource Set holds an instance id terminates the
\* instance, polls for the terminated state, and after that deletes the key
\* pair that was created for the instance.
C22_KeyPairDeletedAfterTermination ==
  DeleteRunAttempted /\ StartResources["instanceId"] =>
    \E i \in 1..Len(calls), j \in 1..Len(calls) :
      /\ i < j
      /\ calls[i].op = "terminateInstance"
      /\ queries > 0
      /\ calls[j].op \in KeyPairDeletes

\* a list operation has returned or thrown
Listed == fn \in ListOps /\ pc = "s_done"

\* the tags the manager of the running list operation filters on
FiltersOf(op) == ListFilters(op, appName, uniqueId[ManagerOf(op)])

\* C23: the tag keys and values a manager writes at creation for the
\* application name and the unique id are the keys and values its list
\* operation filters on, so that the resource it created is matched.
C23_ListFiltersAreTheTagsWritten ==
  Listed /\ tags # {} => FiltersOf(fn) \subseteq tags

\* the value of the UniqueId tag a manager puts on what it creates
UniqueIdTag(m) ==
  CHOOSE v \in NanoIds :
    [Key |-> "UniqueId", Value |-> v] \in getCommonTags(appName, uniqueId[m])

\* the orchestrator and its managers have been constructed
Constructed == fn = "InfrastructureService" /\ pc = "s_done"

\* C24: all resources created within one run carry the same unique-id tag
\* value: no two managers of one run tag with different ids.
C24_OneUniqueIdPerRun ==
  Constructed => \A m \in Managers, n \in Managers :
                   UniqueIdTag(m) = UniqueIdTag(n)

\* selectOrCreateVpc has returned the details of an existing VPC
VpcSelected == fn = "selectOrCreateVpc" /\ pc = "s_done" /\ ret = "vpcDetails"

\* C25: when an existing network is selected, a piece (attached gateway,
\* default-routed route table) that is present is not created again and its
\* existing id is returned, a missing piece is created exactly once, and the
\* returned internetGatewayId names a gateway, the returned routeTableId a
\* route table.
C25_ExistingVpcPiecesReused ==
  VpcSelected =>
    /\ internetGateway.configured =>
         Sends("CreateInternetGateway") = 0 /\ igId = internetGateway.id
    /\ ~internetGateway.configured => Sends("CreateInternetGateway") = 1
    /\ routeTable.configured =>
         Sends("CreateRouteTable") = 0 /\ rtId = routeTable.id
    /\ ~routeTable.configured => Sends("CreateRouteTable") = 1
    /\ IsGateway(igId)
    /\ IsRouteTable(rtId)

\* position of a command in the order deleteLoadBalancer issues them
AlbOrd(command) ==
  CASE command = "DescribeListeners" -> 1
    [] command = "DeleteListener" -> 2
    [] command = "DeleteTargetGroup" -> 3
    [] command = "DeleteLoadBalancer" -> 4

\* C26: deleteLoadBalancer issues: describe listeners, delete every listener
\* found, delete target group, delete load balancer, in that order; the
\* target group is not deleted before every listener is, the load balancer
\* not before the target group; a command that fails is the last one, and
\* the operation then rejects with ALB_ERROR.
C26_LoadBalancerDeletedInOrder ==
  fn = "deleteLoadBalancer" =>
    /\ \A i \in 1..Len(sent), j \in 1..Len(sent) :
         i < j => /\ AlbOrd(sent[i].command) <= AlbOrd(sent[j].command)
                  /\ sent[i].outcome = "ok"
    /\ \A c \in {"DescribeListeners", "DeleteTargetGroup",
                 "DeleteLoadBalancer"} : Sends(c) <= 1
    /\ Sends("DeleteTargetGroup") = 1 =>
         Sends("DescribeListeners") = 1 /\ ListenersDeleted = listeners
    /\ Sends("DeleteLoadBalancer") = 1 =>
         \E i \in 1..Len(sent) :
           sent[i].command = "DeleteTargetGroup" /\ sent[i].outcome = "ok"
    /\ pc = "s_done" =>
         IF sent[Len(sent)].outcome = "ok"
           THEN ret = "ok" /\ sent[Len(sent)].command = "DeleteLoadBalancer"
           ELSE ret = "ALB_ERROR"

C26_Witness ==
  /\ fn = "deleteLoadBalancer"
  /\ pc = "s_done"
  /\ ret = "ok"
  /\ listeners = MaxListeners
  /\ Len(sent) = MaxListeners + 3

ExistenceChecks ==
  {"getSubnets", "getSecurityGroups", "getInstanceProfile", "getInstance",
   "fetchInstance", "fetchVpc"}

\* C28: before a delete run or a rollback invokes the delete operation of a
\* recorded resource, it has asked the remote side whether the resource
\* still exists.
C28_ExistenceCheckedBeforeDelete ==
  \A i \in 1..Len(calls) :
    calls[i].phase \in {"delete", "rollback"} =>
      \E j \in 1..(i - 1) : calls[j].op \in ExistenceChecks

\* C29: a rollback invokes the load-balancer delete operation at most once,
\* also when both the load-balancer id and the target-group id are recorded.
C29_RollbackDeletesLoadBalancerOnce ==
  Invocations("rollback", "deleteLoadBalancer") <= 1

\* every delete the rollback invoked has returned
RollbackDeletesSucceeded ==
  \A i \in 1..Len(calls) : calls[i].phase = "rollback" => calls[i].ok

\* C30: after a failed create run whose rollback deletes all succeeded, no
\* remote resource created by the run remains, the resources of the stage
\* that failed part-way included.
C30_NoRemoteResourceRemains ==
  CreateRunFailed /\ result.kind = "return" /\ RollbackDeletesSucceeded =>
    ~orphaned

-----------------------------------------------------------------------------
(* C31..C40 *)

\* C31: a create run invokes createLoadBalancer, and returns success, only
\* after the running-state poll has observed the instance running; a poll
\* that used up its attempts fails the run.
C31_LoadBalancerOnlyAfterRunning ==
  cmd = "create" /\ Invocations("create", "createLoadBalancer") > 0 =>
    ret = "true"

\* C34: createInfrastructure never raises to its caller: every failure, a
\* failed delete of the rollback included, is reported in the returned value
\* with success false.
C34_CreateNeverRaises ==
  cmd = "create" /\ pc = "done" =>
    result.kind = "return" /\ (error # "none" => ~result.success)

\* C33: a rollback or delete run never deletes a network that no run
\* created: a network the user selected among the existing ones is not
\* deleted.
C33_ExistingNetworkNeverDeleted ==
  DeletedBy("deleteVpc") # {} => isNewVpc

\* createEC2Instance has rejected
Ec2Failed == fn = "createEC2Instance" /\ pc = "s_done" /\ ret # "instanceId"

\* the command of the try block whose failure made createEC2Instance fail
Ec2Originating ==
  LET failed == SelectSeq(sent, LAMBDA c : c.command # "DeleteKeyPair"
                                              /\ c.outcome # "ok")
  IN  failed[1].command

\* C35: when createEC2Instance fails, the error it rejects with carries the
\* code of the originating failure (IAM_ERROR for the profile lookup,
\* EC2_ERROR for key-pair creation or launch) whatever the key-pair delete
\* answers, and DeleteKeyPair is sent only if the key pair had been created.
C35_OriginatingCodeSurvivesCleanup ==
  Ec2Failed =>
    /\ ret = Ec2ErrorCode(Ec2Originating)
    /\ Sends("DeleteKeyPair") > 0 =>
         \E i \in 1..Len(sent) :
           sent[i].command = "CreateKeyPair" /\ sent[i].outcome = "ok"

\* C36: waitForHealthCheck called with maxAttempts = N sends at most N
\* queries and returns true or false; every query that does not report
\* healthy, a query that raises included, uses up one attempt, and the
\* result is false after exactly N queries when none reported healthy.
C36_HealthCheckBoundedByMaxAttempts ==
  fn = "waitForHealthCheck" =>
    /\ queries <= maxAttempts
    /\ ret # "true" => queries = attempts
    /\ pc = "s_done" =>
         /\ ret \in {"true", "false"}
         /\ ret = "false" => queries = maxAttempts

C36_Witness ==
  /\ PollerReturned("waitForHealthCheck")
  /\ maxAttempts = MaxAttemptsArg
  /\ ret = "false"
  /\ queries = MaxAttemptsArg

\* positions of the catch block and of rollbackDeletion
RollbackLabels ==
  {"r_instance", "r_targetGroup", "r_loadBalancer", "r_securityGroups",
   "r_subnets", "r_vpc", "r_instanceProfile", "r_return", "r_throw"}

\* C37: a create run polls the target's health only when isNodeProject is
\* set; when the poll does not report healthy within its attempts the run
\* fails with the health check's error and goes to the rollback with no
\* further stage; when isNodeProject is not set the run completes without a
\* health query.
C37_HealthCheckOnlyWhenEnabled ==
  cmd = "create" =>
    /\ Invocations("create", "waitForHealthCheck") > 0 => isNodeProject
    /\ \A i \in 1..Len(calls) :
         calls[i].op = "waitForHealthCheck" /\ ~calls[i].ok =>
           /\ error = "waitForHealthCheck"
           /\ \A j \in (i + 1)..Len(calls) : calls[j].phase # "create"
           /\ pc \in RollbackLabels \cup {"done"}
           /\ pc = "done" => ~(result.kind = "return" /\ result.success)
    /\ pc = "done" /\ result.kind = "return" /\ result.success =>
         (isNodeProject <=> Invocations("create", "waitForHealthCheck") = 1)

C37_Witness ==
  /\ cmd = "create"
  /\ isNodeProject
  /\ pc = "r_instance"
  /\ Len(calls) > 0
  /\ calls[Len(calls)] = Call("waitForHealthCheck", FALSE, "create")

\* an `ok` answer to `command` is among the commands sent
Succeeded(command) ==
  \E i \in 1..Len(sent) : sent[i].command = command /\ sent[i].outcome = "ok"

\* C38: deleteVpc issues delete route table, detach gateway, delete gateway,
\* delete network, in this order and each at most once; a command is issued
\* only after the one before it succeeded, so the network delete is never
\* issued while the gateway is attached; a failure is the last command
\* issued and the operation rejects with VPC_ERROR.
C38_VpcDeletedInOrder ==
  fn = "deleteVpc" =>
    /\ \A c \in {"DeleteRouteTable", "DetachInternetGateway",
                 "DeleteInternetGateway", "DeleteVpc"} : Sends(c) <= 1
    /\ Sends("DetachInternetGateway") = 1 => Succeeded("DeleteRouteTable")
    /\ Sends("DeleteInternetGateway") = 1 =>
         Succeeded("DetachInternetGateway")
    /\ Sends("DeleteVpc") = 1 => Succeeded("DeleteInternetGateway")
    /\ \A i \in 1..(Len(sent) - 1) : sent[i].outcome = "ok"
    /\ pc = "s_done" =>
         IF sent[Len(sent)].outcome = "ok"
           THEN ret = "ok" /\ sent[Len(sent)].command = "DeleteVpc"
           ELSE ret = "VPC_ERROR"

C38_Witness ==
  /\ fn = "deleteVpc"
  /\ pc = "s_done"
  /\ ret = "VPC_ERROR"
  /\ Len(sent) = 3
  /\ sent[3].command = "DeleteInternetGateway"

\* the profile lookup of deleteInstanceProfile answered with this outcome
ProfileLookup(outcome) ==
  Len(sent) > 0 /\ sent[1].command = "GetInstanceProfile"
                /\ sent[1].outcome = outcome

\* C39: deleteInstanceProfile looks the profile's role up first; with a role
\* attached it lists and detaches every attached policy, then removes the
\* role from the profile, then deletes the role, and only then deletes the
\* profile; without a role it deletes the profile directly; the first
\* failing command is the last one issued and the operation rejects with
\* IAM_ERROR.
C39_ProfileDeletedAfterItsRole ==
  fn = "deleteInstanceProfile" =>
    /\ Len(sent) > 0 => sent[1].command = "GetInstanceProfile"
    /\ \A c \in {"GetInstanceProfile", "ListAttachedRolePolicies",
                 "RemoveRoleFromInstanceProfile", "DeleteRole",
                 "DeleteInstanceProfile"} : Sends(c) <= 1
    /\ \A i \in 1..(Len(sent) - 1) : sent[i].outcome # "Error"
    /\ Sends("DetachRolePolicy") > 0 => Succeeded("ListAttachedRolePolicies")
    /\ Sends("RemoveRoleFromInstanceProfile") = 1 =>
         /\ Succeeded("ListAttachedRolePolicies")
         /\ PoliciesDetached = attachedPolicies
    /\ Sends("DeleteRole") = 1 => Succeeded("RemoveRoleFromInstanceProfile")
    /\ Sends("DeleteInstanceProfile") = 1 =>
         IF ProfileLookup("role")
           THEN Succeeded("DeleteRole")
           ELSE ProfileLookup("norole") /\ Len(sent) = 2
    /\ ProfileLookup("role") /\ Len(sent) > 1 =>
         sent[2].command = "ListAttachedRolePolicies"
    /\ pc = "s_done" =>
         IF sent[Len(sent)].outcome = "Error"
           THEN ret = "IAM_ERROR"
           ELSE ret = "ok" /\ sent[Len(sent)].command = "DeleteInstanceProfile"

C39_Witness ==
  /\ fn = "deleteInstanceProfile"
  /\ pc = "s_done"
  /\ ret = "ok"
  /\ ProfileLookup("role")
  /\ attachedPolicies = MaxAttached
  /\ PoliciesDetached = MaxAttached

\* the block of the CreateSubnet command createSubnets sent last
LastGenerated == SubnetCidr(vpcCidrBlock, subnetIndex - 1)

\* C40: every block createSubnets generates is a /24 of the network whose
\* third octet is between 1 and 255, whatever blocks exist already.
C40_GeneratedBlocksAreValid ==
  fn = "createSubnets" /\ Sends("CreateSubnet") > 0 =>
    /\ LastGenerated[3] \in 1..255
    /\ LastGenerated[1] = vpcCidrBlock[1]
    /\ LastGenerated[2] = vpcCidrBlock[2]
    /\ LastGenerated[4] = 0
    /\ LastGenerated[5] = 24

-----------------------------------------------------------------------------
(* Delete runs under fairness: every remote call and every timer           *)
(* eventually returns, so a process that can take a step takes one         *)

\* the fields the first n stages of a create run have persisted
PersistedAfter(n) ==
  UNION {CASE i = 1 -> {"vpcId", "routeTableId", "internetGatewayId"}
           [] i = 2 -> {"subnetIds"}
           [] i = 3 -> {"securityGroupIds"}
           [] i = 4 -> {"instanceProfileName"}
           [] i = 5 -> {"instanceId"}
           [] i = 6 -> {"loadBalancerArn", "targetGroupArn"} : i \in 1..n}

\* the config files `asobi delete` may find: the template, and what a create
\* run that got through n stages has written
PersistedConfigs ==
  {generateConfigTemplate}
    \cup {[appName |-> TRUE,
           resources |-> [f \in ResourceFields |-> f \in PersistedAfter(n)]] :
            n \in 0..6}

InitDeleteRun ==
  /\ disk \in PersistedConfigs
  /\ pending = {}
  /\ config = generateConfigTemplate
  /\ isNodeProject = FALSE
  /\ cmd = "none"
  /\ pc = "idle"
  /\ resources = EmptyResources
  /\ error = "none"
  /\ result = NoResult
  /\ calls = <<>>
  /\ failedResources = <<>>
  /\ deletedResources = {}
  /\ attempts = 0
  /\ maxAttempts = DefaultMaxAttempts
  /\ queries = 0
  /\ ret = "none"
  /\ fn = "none"
  /\ sent = <<>>
  /\ securityGroupIds = <<>>
  /\ vpcCidrBlock = <<10, 0, 0, 0, 16>>
  /\ availabilityZones = 0
  /\ existingCidrs = {}
  /\ subnetIndex = 1
  /\ subnetCidrs = <<>>
  /\ isNewVpc = TRUE
  /\ defaultVpc = FALSE
  /\ orphaned = FALSE
  /\ uniqueId = NotConstructed
  /\ appName = ""
  /\ tags = {}
  /\ internetGateway = NotVerified
  /\ routeTable = NotVerified
  /\ igId = ""
  /\ rtId = ""
  /\ listeners = 0
  /\ attachedPolicies = 0

\* a pass of waitForInstanceToBeTerminated whose DescribeInstances raises:
\* the catch block starts the timer; `attempts` is as AttemptsAfter leaves
\* it.  (`queries` only counts the raising queries up to MaxQueryFailures:
\* how many there were is of no concern to the loop.)
TerminatedQueryRaises ==
  /\ pc = "d_wait"
  /\ InBudget(attempts, maxAttempts)
  /\ queries' = IF queries - attempts < MaxQueryFailures
                  THEN queries + 1 ELSE queries
  /\ attempts' =
       AttemptsAfter("waitForInstanceToBeTerminated", "error", attempts)
  /\ pc' = "d_wait_sleep"
  /\ UNCHANGED <<ret, orchVars, svcVars>>

\* the timer of the catch block fires; then the test of the `while`
TerminatedSleepEnds ==
  /\ pc = "d_wait_sleep"
  /\ IF InBudget(attempts, maxAttempts)
       THEN pc' = "d_wait" /\ ret' = ret
       ELSE pc' = "d_ec2_cp" /\ ret' = "false"
  /\ UNCHANGED <<attempts, queries, orchVars, svcVars>>

NextDeleteRun ==
  \/ CliDelete \/ CliEnds \/ WriteLands
  \/ DeleteGuard \/ DeregisterTarget
  \/ DeleteLoadBalancer \/ CheckpointLoadBalancer
  \/ TerminateInstance
  \/ WaitTerminatedReady \/ WaitTerminatedWaiting
  \/ TerminatedQueryRaises \/ TerminatedSleepEnds
  \/ CheckpointInstance
  \/ DeleteSecurityGroups \/ CheckpointSecurityGroups
  \/ DeleteSubnets \/ CheckpointSubnets
  \/ DeleteVpc \/ CheckpointVpc
  \/ DeleteInstanceProfile \/ CheckpointInstanceProfile
  \/ ReturnDeleted

SpecDeleteRun ==
  InitDeleteRun /\ [][NextDeleteRun]_vars /\ WF_vars(NextDeleteRun)

\* C32: every delete run that has started returns a result, whatever the
\* remote calls answer.
C32_DeleteRunTerminates ==
  (cmd = "delete" /\ pc = "d_guard") ~> (pc = "done")

====
